---- MODULE Spec2Model ----
(***************************************************************************)
(* Macro-gate detection (MacroGateDetector) and layered graph construction *)
(* (convert_to_app_circuit_format) of the Quilt macro_gate_detector.       *)
(*                                                                         *)
(* Conventions.  Positions are the 0-based, half-open (start, end) pairs   *)
(* of the Python code; the window (i, i+w) of a sequence s is              *)
(* SubSeq(s, i+1, i+w).  Qubit identifiers are the one-digit strings       *)
(* "0".."9" of the code, written as the numbers 0..9 (their string order   *)
(* is their numeric order).  A Python dict is a sequence of entries in     *)
(* insertion order.  The md5 digest of hash_sequence is taken as injective *)
(* on the canonical string it digests, so a hash is that canonical form.   *)
(***************************************************************************)
EXTENDS Integers, Sequences, FiniteSets, TLC

VARIABLES
    \* --- MacroGateDetector pipeline (detect_patterns, find_non_overlapping_macros)
    ops_sequence,       \* the flat operation sequence
    min_repetitions,    \* self.min_repetitions
    max_window_size,    \* self.max_window_size
    pc,                 \* position in the pipeline
    patterns,           \* result of detect_patterns (ordered dict)
    selected_macros,    \* accepted candidates, in acceptance order
    macros,             \* result of find_non_overlapping_macros, labelled in step 4
    hierarchical_view,  \* result of create_hierarchical_view
    statistics,         \* the counts of analyze_circuit's statistics
    \* --- convert_to_app_circuit_format, parse_circuit_dag
    dag_flat,           \* analysis_result['dag_flat'], input_data['dag_flat']
    dag_hierarchical,   \* input_data['dag_hierarchical'] (read by parse_circuit_dag only)
    num_qubits,         \* analysis_result['statistics']['num_qubits']
    gpc,                \* position in the graph builder
    gate_index,         \* number of hierarchical_nodes already processed
    output_nodes,       \* output_nodes
    output_edges,       \* output_edges
    last_node_on_qubit, \* last_node_on_qubit
    node_layers,        \* node_layers
    max_gate_layer,     \* max_gate_layer
    in_macros,          \* analysis_result['macros']
    output_macros,      \* output_macros
    \* --- SemanticLabeler.label_macro, called twice on one sequence
    lab_sequence,       \* sequence
    label_first,        \* the label returned by the first call
    label_second,       \* the label returned by the second call
    lpc,                \* number of calls made
    \* --- MacroGateDetector.hash_sequence, called on a sequence and a variant of it
    hs_seq,             \* seq of the first call
    hs_hash,            \* its hash
    hs_variant,         \* seq of the second call
    hs_variant_hash,    \* its hash
    hs_kind,            \* how the variant was made from hs_seq
    hpc,                \* number of calls made
    \* --- _merge_consecutive_cnots
    circuit_data,       \* circuit.data: the instructions of the argument
    merged_data,        \* the instructions of the circuit built or returned
    merge_i,            \* i
    mpc                 \* position in the function

detVars == <<ops_sequence, min_repetitions, max_window_size, pc, patterns,
             selected_macros, macros, hierarchical_view, statistics>>
graphVars == <<dag_flat, dag_hierarchical, num_qubits, gpc, gate_index, output_nodes,
               output_edges, last_node_on_qubit, node_layers, max_gate_layer,
               in_macros, output_macros>>
labVars == <<lab_sequence, label_first, label_second, lpc>>
hashVars == <<hs_seq, hs_hash, hs_variant, hs_variant_hash, hs_kind, hpc>>
mergeVars == <<circuit_data, merged_data, merge_i, mpc>>
pureVars == <<labVars, hashVars, mergeVars>>
vars == <<detVars, graphVars, pureVars>>

----------------------------------------------------------------------------
(* Bounds of the model *)

MaxLen == 6        \* longest operation sequence given to the detector
MaxRep == 2        \* largest min_repetitions
MaxWindow == 3     \* largest max_window_size
MaxGates == 3      \* longest dag_flat given to the graph builder
MaxQubits == 2     \* largest num_qubits; gates touch qubits 0..MaxQubits-1
MaxLabelLen == 3   \* longest sequence given to the labeler, the QFT segment apart
MaxHashLen == 3    \* longest sequence given to hash_sequence on its own
MaxCircuit == 5    \* longest circuit given to _merge_consecutive_cnots

----------------------------------------------------------------------------
(* Generic helpers *)

Min(a, b) == IF a <= b THEN a ELSE b
Max(a, b) == IF a >= b THEN a ELSE b

SeqToSet(s) == {s[i] : i \in 1..Len(s)}

RECURSIVE MaxOfSeq(_)
MaxOfSeq(s) == IF Len(s) = 1 THEN s[1] ELSE Max(s[1], MaxOfSeq(Tail(s)))

RECURSIVE SeqsUpTo(_, _)
SeqsUpTo(S, n) ==
    IF n = 0 THEN {<<>>}
    ELSE LET shorter == SeqsUpTo(S, n - 1)
         IN  shorter \cup {Append(s, x) : s \in {t \in shorter : Len(t) = n - 1}, x \in S}

\* Python's sorted() on a tuple of qubit identifiers: ascending
RECURSIVE SortAsc(_)
SortAsc(s) ==
    IF Len(s) <= 1 THEN s
    ELSE LET rest == SortAsc(Tail(s))
             x == Head(s)
             k == Cardinality({i \in 1..Len(rest) : rest[i] < x})
         IN  SubSeq(rest, 1, k) \o <<x>> \o SubSeq(rest, k + 1, Len(rest))

\* key comparison of two-component tuples, as Python compares tuples
KeyGreater(a, b) == a[1] > b[1] \/ (a[1] = b[1] /\ a[2] > b[2])

\* Python's sorted(..., reverse=True) / list.sort(reverse=True): descending by
\* key, elements of equal key keeping their original relative order.
\* keyed is a sequence of records [key, val].
RECURSIVE SortDescStable(_)
SortDescStable(keyed) ==
    IF Len(keyed) <= 1 THEN keyed
    ELSE LET n == Len(keyed)
             front == SortDescStable(SubSeq(keyed, 1, n - 1))
             x == keyed[n]
             k == Cardinality({i \in 1..Len(front) : ~KeyGreater(x.key, front[i].key)})
         IN  SubSeq(front, 1, k) \o <<x>> \o SubSeq(front, k + 1, Len(front))

Vals(keyed) == [i \in 1..Len(keyed) |-> keyed[i].val]

----------------------------------------------------------------------------
(* MacroGateDetector *)

Op(n, q, p) == [name |-> n, qubits |-> q, params |-> p]

\* the operations the detector's input sequences are drawn from
Ops == { Op("h", <<0>>, <<>>), Op("h", <<1>>, <<>>), Op("cx", <<1, 0>>, <<>>) }

\* a hash that keeps the qubits in the order the operation lists them
hash_sequence_Unsorted(seq) ==
    [i \in 1..Len(seq) |->
        <<seq[i].name, seq[i].qubits, seq[i].params>>]

\* hash_sequence: the canonical form that is digested
hash_sequence(seq) ==
    [i \in 1..Len(seq) |->
        <<seq[i].name, SortAsc(seq[i].qubits), seq[i].params>>]

\* a grouping that skips a window overlapping the last one recorded for its hash
AddPosition_SkipOverlapping(groups, h, pos) ==
    IF \E k \in 1..Len(groups) : groups[k].hash = h
    THEN LET k == CHOOSE j \in 1..Len(groups) : groups[j].hash = h
             last == groups[k].positions[Len(groups[k].positions)]
         IN  IF pos[1] < last[2] THEN groups
             ELSE [groups EXCEPT ![k].positions = Append(@, pos)]
    ELSE Append(groups, [hash |-> h, positions |-> <<pos>>])

\* window_patterns[pattern_hash].append((i, i + window_size))
AddPosition(groups, h, pos) ==
    IF \E k \in 1..Len(groups) : groups[k].hash = h
    THEN LET k == CHOOSE j \in 1..Len(groups) : groups[j].hash = h
         IN  [groups EXCEPT ![k].positions = Append(@, pos)]
    ELSE Append(groups, [hash |-> h, positions |-> <<pos>>])

\* window_patterns after the starts 0..n-1 of the inner loop
RECURSIVE WindowPatterns(_, _, _)
WindowPatterns(seq, w, n) ==
    IF n = 0 THEN <<>>
    ELSE AddPosition(WindowPatterns(seq, w, n - 1),
                     hash_sequence(SubSeq(seq, n, n - 1 + w)),
                     <<n - 1, n - 1 + w>>)

\* the filter loop: groups meeting the threshold enter all_patterns
RECURSIVE FilterInto(_, _, _, _, _)
FilterInto(all, groups, seq, w, minrep) ==
    IF groups = <<>> THEN all
    ELSE LET g == Head(groups)
             keep == /\ Len(g.positions) >= minrep
                     /\ ~\E k \in 1..Len(all) : all[k].hash = g.hash
             entry == [hash |-> g.hash,
                       sequence |-> SubSeq(seq, g.positions[1][1] + 1, g.positions[1][2]),
                       positions |-> g.positions,
                       window_size |-> w,
                       count |-> Len(g.positions)]
         IN  FilterInto(IF keep THEN Append(all, entry) ELSE all,
                        Tail(groups), seq, w, minrep)

\* all_patterns after the window sizes 2..w of the outer loop
RECURSIVE AllPatterns(_, _, _)
AllPatterns(seq, w, minrep) ==
    IF w < 2 THEN <<>>
    ELSE FilterInto(AllPatterns(seq, w - 1, minrep),
                    WindowPatterns(seq, w, Len(seq) - w + 1),
                    seq, w, minrep)

\* a window range bounded by the whole length instead of half of it
LastWindowSize_FullLength(seq, maxw) == Min(maxw + 1, Len(seq) + 1) - 1

\* range(2, min(max_window_size + 1, len // 2 + 1)): its last value
LastWindowSize(seq, maxw) == Min(maxw + 1, (Len(seq) \div 2) + 1) - 1

detect_patterns(seq, minrep, maxw) ==
    LET all == AllPatterns(seq, LastWindowSize(seq, maxw), minrep)
    IN  Vals(SortDescStable(
            [i \in 1..Len(all) |->
                [key |-> <<all[i].count, all[i].window_size>>, val |-> all[i]]]))

\* one candidate per (pattern, position), in dict and list order
CandidatesOf(p) ==
    [i \in 1..Len(p.positions) |->
        [hash |-> p.hash,
         sequence |-> p.sequence,
         start |-> p.positions[i][1],
         end |-> p.positions[i][2],
         window_size |-> p.window_size,
         size |-> p.positions[i][2] - p.positions[i][1]]]

RECURSIVE AllMacroCandidates(_)
AllMacroCandidates(pats) ==
    IF pats = <<>> THEN <<>>
    ELSE CandidatesOf(Head(pats)) \o AllMacroCandidates(Tail(pats))

\* a sort key that prefers the larger start among equal sizes
CandidateKey_LargerStartFirst(c) == <<c.size, c.start>>

\* key=lambda x: (x['size'], -x['start'])
CandidateKey(c) == <<c.size, 0 - c.start>>

\* all_macro_candidates.sort(key=..., reverse=True)
SortedCandidates(pats) ==
    LET cands == AllMacroCandidates(pats)
    IN  Vals(SortDescStable(
            [i \in 1..Len(cands) |-> [key |-> CandidateKey(cands[i]), val |-> cands[i]]]))

\* an overlap test that is off by one: ranges sharing a single position pass
ranges_overlap_OffByOne(start1, end1, start2, end2) ==
    ~(end1 <= start2 + 1 \/ end2 <= start1 + 1)

ranges_overlap(start1, end1, start2, end2) ==
    ~(end1 <= start2 \/ end2 <= start1)

\* an overlap test against the most recently selected candidate only
OverlapsUsed_LastOnly(candidate, selected) ==
    /\ selected # <<>>
    /\ ranges_overlap(candidate.start, candidate.end,
                      selected[Len(selected)].start, selected[Len(selected)].end)

\* the inner loop over used_ranges; used_ranges holds the (start, end) of the
\* candidates selected so far, in the same order
OverlapsUsed(candidate, selected) ==
    \E k \in 1..Len(selected) :
        ranges_overlap(candidate.start, candidate.end, selected[k].start, selected[k].end)

\* selected_macros after the first n candidates of the greedy loop
RECURSIVE GreedySelect(_, _)
GreedySelect(cands, n) ==
    IF n = 0 THEN <<>>
    ELSE LET sel == GreedySelect(cands, n - 1)
         IN  IF OverlapsUsed(cands[n], sel) THEN sel ELSE Append(sel, cands[n])

\* macros_by_hash: selected candidates grouped by hash, in first-selected order
RECURSIVE GroupByHash(_)
GroupByHash(selected) ==
    IF selected = <<>> THEN <<>>
    ELSE LET n == Len(selected)
             groups == GroupByHash(SubSeq(selected, 1, n - 1))
             m == selected[n]
             pos == <<m.start, m.end>>
         IN  IF \E k \in 1..Len(groups) : groups[k].hash = m.hash
             THEN LET k == CHOOSE j \in 1..Len(groups) : groups[j].hash = m.hash
                  IN  [groups EXCEPT ![k].positions = Append(@, pos)]
             ELSE Append(groups, [hash |-> m.hash,
                                  sequence |-> m.sequence,
                                  positions |-> <<pos>>,
                                  window_size |-> m.window_size])

\* a threshold test that only asks for a non-empty group
MeetsMinRepetitions_NonEmpty(macro_info, minrep) == Len(macro_info.positions) >= 1

\* the test that lets a group of macros_by_hash into the result
MeetsMinRepetitions(macro_info, minrep) == Len(macro_info.positions) >= minrep

\* a final loop that reports the count detect_patterns found for the pattern
\* instead of the number of selected occurrences
RECURSIVE FilterMacros_DetectedCount(_, _)
FilterMacros_DetectedCount(groups, minrep) ==
    IF groups = <<>> THEN <<>>
    ELSE LET g == Head(groups)
             rest == FilterMacros_DetectedCount(Tail(groups), minrep)
             detected == CHOOSE k \in 1..Len(patterns) : patterns[k].hash = g.hash
         IN  IF Len(g.positions) >= minrep
             THEN <<[hash |-> g.hash,
                     sequence |-> g.sequence,
                     positions |-> g.positions,
                     count |-> patterns[detected].count,
                     window_size |-> g.window_size]>> \o rest
             ELSE rest

\* the final loop: filter by min_repetitions and add 'count'
RECURSIVE FilterMacros(_, _)
FilterMacros(groups, minrep) ==
    IF groups = <<>> THEN <<>>
    ELSE LET g == Head(groups)
             rest == FilterMacros(Tail(groups), minrep)
         IN  IF MeetsMinRepetitions(g, minrep)
             THEN <<[hash |-> g.hash,
                     sequence |-> g.sequence,
                     positions |-> g.positions,
                     count |-> Len(g.positions),
                     window_size |-> g.window_size]>> \o rest
             ELSE rest

\* a macro list left in the order the groups were formed
SortMacros_Unsorted(ms) == ms

\* return sorted(macros, key=lambda x: (x['count'], x['window_size']), reverse=True)
SortMacros(ms) ==
    Vals(SortDescStable(
        [i \in 1..Len(ms) |-> [key |-> <<ms[i].count, ms[i].window_size>>, val |-> ms[i]]]))

----------------------------------------------------------------------------
(* SemanticLabeler: analyze_gate_sequence, _analyze_connectivity,            *)
(* match_known_pattern, _describe_multi_qubit_pattern, label_macro.  A gate  *)
(* of a sequence is the tuple (name, qubits, params) as a record; Python's   *)
(* None is the empty string, which `if known_pattern:` treats alike.         *)

None == ""

\* str.upper() on the names of the rotation gates
Upper(g) ==
    CASE g = "ry" -> "RY" [] g = "rz" -> "RZ" [] g = "rx" -> "RX"
      [] g = "u1" -> "U1" [] g = "u2" -> "U2" [] g = "u3" -> "U3"
      [] OTHER -> g

\* gate_names = [gate[0] for gate in sequence]
GateNames(sequence) == [i \in 1..Len(sequence) |-> sequence[i].name]

\* sum(gate_counts.get(g, 0) for g in names)
CountOf(sequence, names) == Cardinality({i \in 1..Len(sequence) : sequence[i].name \in names})

\* the names of the three lists the labeler tests membership in
EntanglingNames == {"cx", "cz", "cy", "swap"}
RotationNames == {"ry", "rz", "rx", "u1", "u2", "u3"}
AxisRotationNames == {"ry", "rz", "rx"}

\* the pairs (min, max) of the qubits of one gate, for i < j in index order
RECURSIVE PairsOf(_)
PairsOf(qubits) ==
    IF Len(qubits) < 2 THEN <<>>
    ELSE [j \in 1..(Len(qubits) - 1) |->
             <<Min(qubits[1], qubits[j + 1]), Max(qubits[1], qubits[j + 1])>>]
         \o PairsOf(Tail(qubits))

\* connections: the pairs of every gate with two or more qubits
RECURSIVE Connections(_)
Connections(sequence) ==
    IF sequence = <<>> THEN <<>>
    ELSE PairsOf(Head(sequence).qubits) \o Connections(Tail(sequence))

\* a degree that counts the distinct qubits q is connected to
QubitDegree_Distinct(connections, q) ==
    Cardinality({connections[i][2] : i \in {j \in 1..Len(connections) : connections[j][1] = q}}
                \cup {connections[i][1] : i \in {j \in 1..Len(connections) : connections[j][2] = q}})

\* qubit_degree[q]: the number of connection endpoints equal to q
QubitDegree(connections, q) ==
    Cardinality({i \in 1..Len(connections) : connections[i][1] = q})
    + Cardinality({i \in 1..Len(connections) : connections[i][2] = q})

_analyze_connectivity(sequence) ==
    LET connections == Connections(sequence)
        qubit_list == UNION {{connections[i][1], connections[i][2]} : i \in 1..Len(connections)}
        degrees == {QubitDegree(connections, q) : q \in qubit_list}
        max_degree == IF degrees # {} THEN CHOOSE d \in degrees : \A e \in degrees : e <= d
                      ELSE 0
    IN  [is_linear |-> max_degree <= 2 /\ Cardinality(qubit_list) > 2,
         is_star |-> /\ degrees # {}
                     /\ Cardinality(qubit_list) > 2
                     /\ max_degree >= Cardinality(qubit_list) - 1,
         is_ring |-> /\ Cardinality(qubit_list) >= 3
                     /\ \A q \in qubit_list : QubitDegree(connections, q) = 2,
         max_degree |-> max_degree]

analyze_gate_sequence(sequence) ==
    LET gate_names == GateNames(sequence)
        all_qubits == UNION {SeqToSet(sequence[i].qubits) : i \in 1..Len(sequence)}
        num_qubits_ == Cardinality(all_qubits)
    IN  [num_qubits |-> num_qubits_,
         num_gates |-> Len(sequence),
         has_entanglement |-> \E i \in 1..Len(gate_names) : gate_names[i] \in EntanglingNames,
         has_rotations |-> \E i \in 1..Len(gate_names) : gate_names[i] \in RotationNames,
         has_hadamard |-> \E i \in 1..Len(gate_names) : gate_names[i] = "h",
         is_single_qubit |-> num_qubits_ = 1,
         is_two_qubit |-> num_qubits_ = 2,
         connectivity |-> _analyze_connectivity(sequence),
         gate_sequence |-> gate_names]

\* [g[0] for g in sequence if g[0] in names]
NamesIn(sequence, names) == SelectSeq(GateNames(sequence), LAMBDA g : g \in names)

\* a QFT rule that asks for a majority of controlled-phase gates
QFTLabel_MajorityRatio(sequence) ==
    LET gate_names == GateNames(sequence)
        num_gates == Len(sequence)
        num_qubits_ == analyze_gate_sequence(sequence).num_qubits
        cp_count == CountOf(sequence, {"cp", "crz", "cu1", "cz", "p"})
        early_h == \E i \in 1..Min(3, Len(gate_names)) : gate_names[i] = "h"
    IN  IF /\ CountOf(sequence, {"h"}) >= 1
           /\ num_qubits_ >= 2
           /\ cp_count > 0
           /\ 2 * cp_count > num_gates
           /\ early_h
        THEN "QFT Circuit Segment"
                 \o (IF CountOf(sequence, {"swap"}) > 0 THEN " (with SWAP Layer)" ELSE "")
        ELSE None

\* 1. QFT Recognition; cp_ratio > 0.3 is 10 * cp_count > 3 * num_gates
QFTLabel(sequence) ==
    LET gate_names == GateNames(sequence)
        num_gates == Len(sequence)
        num_qubits_ == analyze_gate_sequence(sequence).num_qubits
        cp_count == CountOf(sequence, {"cp", "crz", "cu1", "cz", "p"})
        early_h == \E i \in 1..Min(3, Len(gate_names)) : gate_names[i] = "h"
    IN  IF /\ CountOf(sequence, {"h"}) >= 1
           /\ num_qubits_ >= 2
           /\ cp_count > 0
           /\ 10 * cp_count > 3 * num_gates
           /\ early_h
        THEN "QFT Circuit Segment"
                 \o (IF CountOf(sequence, {"swap"}) > 0 THEN " (with SWAP Layer)" ELSE "")
        ELSE None

\* 2. Grover's/Amplitude Amplification; h_ratio > 0.2 is 5 * h_count > num_gates
GroverLabel(sequence) ==
    LET gate_names == GateNames(sequence)
        num_gates == Len(sequence)
        num_qubits_ == analyze_gate_sequence(sequence).num_qubits
        h_count == CountOf(sequence, {"h"})
        cnot_count == CountOf(sequence, {"cx"})
        cz_count == CountOf(sequence, {"cz"})
    IN  IF /\ num_qubits_ >= 2
           /\ Len(sequence) >= 3
           /\ h_count >= 2
           /\ (cnot_count > 0 \/ cz_count > 0)
           /\ (gate_names[1] = "h" \/ gate_names[Len(gate_names)] = "h")
           /\ 5 * h_count > num_gates
           /\ \/ \E i \in 1..Len(gate_names) : gate_names[i] \in {"z", "cz", "cp", "crz"}
              \/ cnot_count >= num_qubits_
        THEN "Grover Diffusion/Oracle Block"
        ELSE None

\* 3.-8. of match_known_pattern
StructuralLabel(sequence, analysis) ==
    LET all_named(g) == \A i \in 1..Len(sequence) : sequence[i].name = g
        cnot_count == CountOf(sequence, {"cx"})
        rotation_count == CountOf(sequence, RotationNames)
        rotation_types == NamesIn(sequence, AxisRotationNames)
        cz_count == CountOf(sequence, {"cz"})
    IN  IF all_named("cx") /\ Len(sequence) >= 2
        THEN IF analysis.num_qubits = 2 THEN "CNOT Pair"
             ELSE IF analysis.connectivity.is_linear THEN "CNOT Chain"
             ELSE "CNOT Ladder"
        ELSE IF all_named("swap") THEN "Swap Network"
        ELSE IF all_named("h") /\ Len(sequence) >= 2
        THEN IF Len(sequence) = analysis.num_qubits THEN "Hadamard Layer"
             ELSE "Hadamard Ladder"
        ELSE IF cnot_count > 0 /\ rotation_count > 0 /\ rotation_types # <<>>
        THEN IF cnot_count = 1 /\ rotation_count = 1
             THEN Upper(rotation_types[1]) \o " Rotation Block"
             ELSE IF cnot_count = 2 /\ rotation_count = 1
             THEN Upper(rotation_types[1]) \o " Rotation with CNOT Pair"
             ELSE IF cnot_count >= 2 /\ rotation_count >= 1
             THEN Upper(rotation_types[1]) \o " Rotation with Entangling Layer"
             ELSE "Rotation-Entangling Block"
        ELSE IF rotation_count > 0 /\ cnot_count = 0 /\ rotation_types # <<>>
        THEN IF Cardinality(SeqToSet(rotation_types)) = 1
             THEN Upper(rotation_types[1]) \o " Rotation Block"
             ELSE "Mixed Rotation Block"
        ELSE IF cz_count > 0 /\ cnot_count = 0
        THEN IF cz_count >= 2 THEN "CZ Ladder" ELSE "CZ Gate"
        ELSE None

\* a matcher that recognises a QFT segment only at the start of the circuit
match_known_pattern_AtCircuitStart(sequence, analysis, earliest_position, total_circuit_length) ==
    IF QFTLabel(sequence) # None /\ earliest_position = 0 THEN QFTLabel(sequence)
    ELSE IF GroverLabel(sequence) # None THEN GroverLabel(sequence)
    ELSE StructuralLabel(sequence, analysis)

\* a matcher that tries the Grover rule before the QFT rule
match_known_pattern_GroverFirst(sequence, analysis, earliest_position, total_circuit_length) ==
    IF GroverLabel(sequence) # None THEN GroverLabel(sequence)
    ELSE IF QFTLabel(sequence) # None THEN QFTLabel(sequence)
    ELSE StructuralLabel(sequence, analysis)

match_known_pattern(sequence, analysis, earliest_position, total_circuit_length) ==
    IF QFTLabel(sequence) # None THEN QFTLabel(sequence)
    ELSE IF GroverLabel(sequence) # None THEN GroverLabel(sequence)
    ELSE StructuralLabel(sequence, analysis)

_describe_multi_qubit_pattern(analysis, sequence) ==
    LET connectivity == analysis.connectivity
        cnot_count == CountOf(sequence, {"cx"})
        rotation_count == CountOf(sequence, RotationNames)
        hadamard_count == CountOf(sequence, {"h"})
        rotation_types == NamesIn(sequence, AxisRotationNames)
    IN  IF cnot_count > 0 /\ rotation_count = 0 /\ hadamard_count = 0
        THEN IF analysis.num_qubits = 2 THEN "Entangling Pair"
             ELSE IF connectivity.is_linear THEN "Linear Entangling Chain"
             ELSE IF connectivity.is_star THEN "Star Entangling Pattern"
             ELSE IF connectivity.is_ring THEN "Ring Entangling Pattern"
             ELSE "Entangling Block"
        ELSE IF rotation_count > 0 /\ rotation_types # <<>>
        THEN IF cnot_count > 0
             THEN IF connectivity.is_linear
                  THEN Upper(rotation_types[1]) \o " Rotation with Linear Entangling"
                  ELSE Upper(rotation_types[1]) \o " Rotation with Entangling"
             ELSE Upper(rotation_types[1]) \o " Rotation Block"
        ELSE IF hadamard_count > 0 /\ cnot_count > 0 THEN "Hadamard-Entangling Block"
        ELSE IF analysis.num_qubits >= 3 THEN "Multi-Qubit Block"
        ELSE IF analysis.num_qubits = 2 THEN "Two-Qubit Block"
        ELSE "Gate Block"

\* earliest_position = min(pos[0] for pos in macro['positions']), None as -1
EarliestPosition(macro) ==
    IF macro.positions # <<>>
    THEN 0 - MaxOfSeq([i \in 1..Len(macro.positions) |-> 0 - macro.positions[i][1]])
    ELSE 0 - 1

\* the branches of label_macro after the known patterns
FallbackLabel(sequence, analysis) ==
    LET rotation_gates == NamesIn(sequence, RotationNames)
        axis_rotation_gates == NamesIn(sequence, AxisRotationNames)
    IN  IF analysis.is_single_qubit
        THEN IF analysis.has_rotations
             THEN IF rotation_gates # <<>>
                  THEN Upper(rotation_gates[1]) \o " Rotation Block"
                  ELSE "Macro Block"
             ELSE IF analysis.has_hadamard THEN "Hadamard Block"
             ELSE "Single Qubit Layer"
        ELSE IF analysis.is_two_qubit
        THEN IF analysis.has_entanglement
             THEN IF analysis.gate_sequence[1] = "cx" THEN "CNOT Pair"
                  ELSE IF analysis.gate_sequence[1] = "cz" THEN "CZ Pair"
                  ELSE "Entangling Pair"
             ELSE IF analysis.has_rotations /\ axis_rotation_gates # <<>>
             THEN Upper(axis_rotation_gates[1]) \o " Rotation Pair"
             ELSE "Two-Qubit Block"
        ELSE IF analysis.num_qubits > 2
        THEN _describe_multi_qubit_pattern(analysis, sequence)
        ELSE IF analysis.has_rotations /\ ~analysis.has_entanglement
        THEN IF axis_rotation_gates # <<>>
             THEN IF Cardinality(SeqToSet(axis_rotation_gates)) = 1
                  THEN Upper(axis_rotation_gates[1]) \o " Rotation Block"
                  ELSE "Mixed Rotation Block"
             ELSE "Rotation Block"
        ELSE "Macro Block"

label_macro(macro, sequence, all_macros, total_circuit_length) ==
    LET analysis == analyze_gate_sequence(sequence)
        earliest_position == EarliestPosition(macro)
        known_pattern == match_known_pattern(sequence, analysis, earliest_position,
                                             total_circuit_length)
    IN  IF known_pattern # None THEN known_pattern
        ELSE FallbackLabel(sequence, analysis)

LabelerIdle ==
    /\ lab_sequence = <<>>
    /\ label_first = None
    /\ label_second = None
    /\ lpc = "idle"

HashIdle ==
    /\ hs_seq = <<>>
    /\ hs_hash = <<>>
    /\ hs_variant = <<>>
    /\ hs_variant_hash = <<>>
    /\ hs_kind = "none"
    /\ hpc = "idle"

MergeIdle ==
    /\ circuit_data = <<>>
    /\ merged_data = <<>>
    /\ merge_i = 0
    /\ mpc = "idle"

PureIdle == LabelerIdle /\ HashIdle /\ MergeIdle

----------------------------------------------------------------------------
(* analyze_circuit, steps 4, 5 and 8: labels, create_hierarchical_view and   *)
(* the counts of the statistics.                                             *)

\* for macro in macros: macro['label'] = labeler.label_macro(...)
LabelAll(ms, total_circuit_length) ==
    [k \in 1..Len(ms) |->
        [hash |-> ms[k].hash,
         sequence |-> ms[k].sequence,
         positions |-> ms[k].positions,
         count |-> ms[k].count,
         window_size |-> ms[k].window_size,
         label |-> label_macro(ms[k], ms[k].sequence, ms, total_circuit_length)]]

\* the (macro, start, end) triples in the order the two loops visit them
RECURSIVE MacroEntries(_)
MacroEntries(ms) ==
    IF ms = <<>> THEN <<>>
    ELSE LET m == ms[Len(ms)]
         IN  MacroEntries(SubSeq(ms, 1, Len(ms) - 1))
                 \o [k \in 1..Len(m.positions) |->
                        [macro |-> m, start |-> m.positions[k][1], end |-> m.positions[k][2]]]

\* a dict whose entries record a span of one gate instead of the macro's end
RECURSIVE StartToMacro_UnitSpan(_)
StartToMacro_UnitSpan(entries) ==
    IF entries = <<>> THEN <<>>
    ELSE LET n == Len(entries)
             start_to_macro == StartToMacro_UnitSpan(SubSeq(entries, 1, n - 1))
             e == entries[n]
         IN  IF \/ e.start \notin DOMAIN start_to_macro
                \/ (e.end - e.start) > (start_to_macro[e.start].end - e.start)
             THEN [s \in DOMAIN start_to_macro \cup {e.start} |->
                      IF s = e.start THEN [macro |-> e.macro, end |-> e.start + 1]
                      ELSE start_to_macro[s]]
             ELSE start_to_macro

\* start_to_macro: the entry of a start position is replaced only by a
\* strictly longer one
RECURSIVE StartToMacro(_)
StartToMacro(entries) ==
    IF entries = <<>> THEN <<>>
    ELSE LET n == Len(entries)
             start_to_macro == StartToMacro(SubSeq(entries, 1, n - 1))
             e == entries[n]
         IN  IF \/ e.start \notin DOMAIN start_to_macro
                \/ (e.end - e.start) > (start_to_macro[e.start].end - e.start)
             THEN [s \in DOMAIN start_to_macro \cup {e.start} |->
                      IF s = e.start THEN [macro |-> e.macro, end |-> e.end]
                      ELSE start_to_macro[s]]
             ELSE start_to_macro

MacroItem(macro, i, macro_end) ==
    [type |-> "macro", label |-> macro.label, size |-> macro_end - i,
     gates |-> [k \in 1..Len(macro.sequence) |->
                   [name |-> macro.sequence[k].name, qubits |-> macro.sequence[k].qubits]],
     start_position |-> i, end_position |-> macro_end]

GateItem(op, i) ==
    [type |-> "gate", name |-> op.name, qubits |-> op.qubits, position |-> i]

\* the while loop from index i on
RECURSIVE ViewFrom(_, _, _)
ViewFrom(seq, start_to_macro, i) ==
    IF i >= Len(seq) THEN <<>>
    ELSE IF i \in DOMAIN start_to_macro
    THEN <<MacroItem(start_to_macro[i].macro, i, start_to_macro[i].end)>>
             \o ViewFrom(seq, start_to_macro, start_to_macro[i].end)
    ELSE <<GateItem(seq[i + 1], i)>> \o ViewFrom(seq, start_to_macro, i + 1)

create_hierarchical_view(seq, ms) ==
    ViewFrom(seq, StartToMacro(MacroEntries(ms)), 0)

RECURSIVE SumOf(_)
SumOf(s) == IF s = <<>> THEN 0 ELSE Head(s) + SumOf(Tail(s))

\* the statistics that count gates, macros and items
Statistics(seq, ms, view) ==
    [original_gates |-> Len(seq),
     num_macros |-> Len(ms),
     total_macro_instances |-> SumOf([k \in 1..Len(ms) |-> ms[k].count]),
     hierarchical_items |-> Len(view)]

\* the statistics before analyze_circuit has computed them
NoStatistics ==
    [original_gates |-> 0, num_macros |-> 0, total_macro_instances |-> 0,
     hierarchical_items |-> 0]

----------------------------------------------------------------------------
(* The detector pipeline of analyze_circuit, steps 3: detect_patterns, then *)
(* find_non_overlapping_macros (greedy selection, then grouping).           *)

GraphIdle ==
    /\ dag_flat = <<>>
    /\ dag_hierarchical = <<>>
    /\ num_qubits = 0
    /\ gpc = "idle"
    /\ gate_index = 0
    /\ output_nodes = <<>>
    /\ output_edges = <<>>
    /\ last_node_on_qubit = <<>>
    /\ node_layers = <<>>
    /\ max_gate_layer = 0
    /\ in_macros = <<>>
    /\ output_macros = <<>>

Init ==
    /\ ops_sequence \in SeqsUpTo(Ops, MaxLen)
    /\ min_repetitions \in 0..MaxRep
    /\ max_window_size \in 0..MaxWindow
    /\ pc = "start"
    /\ patterns = <<>>
    /\ selected_macros = <<>>
    /\ macros = <<>>
    /\ hierarchical_view = <<>>
    /\ statistics = NoStatistics
    /\ GraphIdle
    /\ PureIdle

DetectPatterns ==
    /\ pc = "start"
    /\ patterns' = detect_patterns(ops_sequence, min_repetitions, max_window_size)
    /\ pc' = "detected"
    /\ UNCHANGED <<ops_sequence, min_repetitions, max_window_size, selected_macros, macros,
                   hierarchical_view, statistics>>
    /\ UNCHANGED <<graphVars, pureVars>>

SelectCandidates ==
    /\ pc = "detected"
    /\ LET cands == SortedCandidates(patterns)
       IN  selected_macros' = GreedySelect(cands, Len(cands))
    /\ pc' = "selected"
    /\ UNCHANGED <<ops_sequence, min_repetitions, max_window_size, patterns, macros,
                   hierarchical_view, statistics>>
    /\ UNCHANGED <<graphVars, pureVars>>

GroupMacros ==
    /\ pc = "selected"
    /\ macros' = SortMacros(FilterMacros(GroupByHash(selected_macros), min_repetitions))
    /\ pc' = "done"
    /\ UNCHANGED <<ops_sequence, min_repetitions, max_window_size, patterns, selected_macros,
                   hierarchical_view, statistics>>
    /\ UNCHANGED <<graphVars, pureVars>>

\* Step 4: Label macros
LabelMacros ==
    /\ pc = "done"
    /\ macros' = LabelAll(macros, Len(ops_sequence))
    /\ pc' = "labelled"
    /\ UNCHANGED <<ops_sequence, min_repetitions, max_window_size, patterns, selected_macros,
                   hierarchical_view, statistics>>
    /\ UNCHANGED <<graphVars, pureVars>>

\* Step 5: Create hierarchical view, and Step 8: Calculate statistics
CreateHierarchicalView ==
    /\ pc = "labelled"
    /\ LET view == create_hierarchical_view(ops_sequence, macros)
       IN  /\ hierarchical_view' = view
           /\ statistics' = Statistics(ops_sequence, macros, view)
    /\ pc' = "analyzed"
    /\ UNCHANGED <<ops_sequence, min_repetitions, max_window_size, patterns, selected_macros,
                   macros>>
    /\ UNCHANGED <<graphVars, pureVars>>

Next == DetectPatterns \/ SelectCandidates \/ GroupMacros \/ LabelMacros
            \/ CreateHierarchicalView

Spec == Init /\ [][Next]_vars

----------------------------------------------------------------------------
(* convert_to_app_circuit_format: init nodes, gate nodes with layers and     *)
(* edges, end nodes.  A node id f"gate_{pos}", f"q_start_{q}", f"q_end_{q}"  *)
(* is the pair of its prefix and its number; a node name is a tuple too.     *)

Item(p, g, qs) == [position |-> p, gate |-> g, qubits |-> qs]

\* the gates the graph builder's dag_flat is drawn from: one-qubit gates and
\* two-qubit gates (the same qubit twice included) on the qubits 0..nq-1
GraphGates(nq) ==
    {[gate |-> "h", qubits |-> <<q>>] : q \in 0..(nq - 1)}
    \cup {[gate |-> "cx", qubits |-> <<q1, q2>>] : q1 \in 0..(nq - 1), q2 \in 0..(nq - 1)}

\* Step 6 of analyze_circuit: dag_flat item i carries position i
DagFlatOf(gates) ==
    [i \in 1..Len(gates) |-> Item(i - 1, gates[i].gate, gates[i].qubits)]

\* the sample input_data of circuit_json_parsing.py: its dag_flat
FixtureDagFlat ==
    << Item(0, "h", <<2>>),      Item(1, "cx", <<1, 2>>),  Item(2, "u3", <<2>>),
       Item(3, "cx", <<1, 2>>),  Item(4, "h", <<1>>),      Item(5, "u3", <<2>>),
       Item(6, "cx", <<0, 2>>),  Item(7, "u3", <<2>>),     Item(8, "cx", <<0, 2>>),
       Item(9, "cx", <<0, 1>>),  Item(10, "u3", <<1>>),    Item(11, "cx", <<0, 1>>),
       Item(12, "h", <<0>>),     Item(13, "u3", <<1>>),    Item(14, "u3", <<2>>) >>

\* the sample input_data: statistics.num_qubits
FixtureNumQubits == 3

\* a qubit list that starts at 1 instead of 0
QubitList_FromOne(n) == [i \in 1..n |-> i]

\* qubit_list = [str(i) for i in range(num_qubits)]
QubitList(n) == [i \in 1..n |-> i - 1]

StartId(q) == <<"q_start", q>>
GateId(pos) == <<"gate", pos>>
EndId(q) == <<"q_end", q>>

\* start_layer = -1
start_layer == 0 - 1

InitNode(q) ==
    [id |-> StartId(q), name |-> <<"q", q, "init">>, type |-> "init",
     position |-> 0 - 1, qubits |-> <<q>>, layer |-> start_layer]

\* hierarchical_nodes[i]: the gate node of dag_flat item i, before its layer is set
HierarchicalNode(item) ==
    [id |-> GateId(item.position), name |-> <<item.gate>>, type |-> "gate",
     position |-> item.position, qubits |-> item.qubits, layer |-> 0]

\* a predecessor list that is not deduplicated per (predecessor, qubit) pair
RECURSIVE PredecessorNodes_NoDedup(_, _)
PredecessorNodes_NoDedup(qubits, last) ==
    IF qubits = <<>> THEN <<>>
    ELSE LET n == Len(qubits)
             front == PredecessorNodes_NoDedup(SubSeq(qubits, 1, n - 1), last)
             q == qubits[n]
         IN  IF q \in DOMAIN last
             THEN Append(front, <<last[q], q>>)
             ELSE front

\* a predecessor list that gives a qubit without a recorded last node the last
\* node of some other qubit
RECURSIVE PredecessorNodes_Borrowed(_, _)
PredecessorNodes_Borrowed(qubits, last) ==
    IF qubits = <<>> THEN <<>>
    ELSE LET n == Len(qubits)
             front == PredecessorNodes_Borrowed(SubSeq(qubits, 1, n - 1), last)
             q == qubits[n]
             pred == IF q \in DOMAIN last THEN last[q]
                     ELSE last[CHOOSE k \in DOMAIN last : TRUE]
         IN  IF DOMAIN last # {} /\ <<pred, q>> \notin SeqToSet(front)
             THEN Append(front, <<pred, q>>)
             ELSE front

\* predecessor_nodes after the loop over the node's qubits
RECURSIVE PredecessorNodes(_, _)
PredecessorNodes(qubits, last) ==
    IF qubits = <<>> THEN <<>>
    ELSE LET n == Len(qubits)
             front == PredecessorNodes(SubSeq(qubits, 1, n - 1), last)
             q == qubits[n]
         IN  IF q \in DOMAIN last /\ <<last[q], q>> \notin SeqToSet(front)
             THEN Append(front, <<last[q], q>>)
             ELSE front

\* a layer computation that takes the lowest predecessor instead of the highest
CurrentLayer_LowestPredecessor(predecessor_layers) ==
    IF predecessor_layers # <<>>
    THEN 1 - MaxOfSeq([k \in 1..Len(predecessor_layers) |-> 0 - predecessor_layers[k]])
    ELSE 0

\* a layer computation that only looks at the first predecessor
CurrentLayer_FirstPredecessor(predecessor_layers) ==
    IF predecessor_layers # <<>> THEN 1 + predecessor_layers[1] ELSE 0

\* a layer computation that forgets the increment
CurrentLayer_NoIncrement(predecessor_layers) ==
    IF predecessor_layers # <<>> THEN MaxOfSeq(predecessor_layers) ELSE 0

\* current_layer = 0; if predecessor_layers: current_layer = 1 + max(...)
CurrentLayer(predecessor_layers) ==
    IF predecessor_layers # <<>> THEN 1 + MaxOfSeq(predecessor_layers) ELSE 0

Edge(pred_id, node_id, q) ==
    [name |-> <<"q", q>>, from |-> pred_id, to |-> node_id, qubit |-> q]

\* a tracker update that only records the node's first qubit
UpdateLastNode_FirstQubitOnly(last, qubits, node_id) ==
    IF qubits = <<>> THEN last
    ELSE [q \in DOMAIN last \cup {qubits[1]} |->
             IF q = qubits[1] THEN node_id ELSE last[q]]

\* for q in qubits: last_node_on_qubit[q] = node_id
UpdateLastNode(last, qubits, node_id) ==
    [q \in DOMAIN last \cup SeqToSet(qubits) |->
        IF q \in SeqToSet(qubits) THEN node_id ELSE last[q]]

\* an end layer equal to the highest gate layer
EndLayer_NoIncrement(mgl) == mgl

\* end_layer = max_gate_layer + 1
EndLayer(mgl) == mgl + 1

\* max_pos = (max(positions) if positions else 0) + 1
MaxPos(flat) ==
    (IF flat # <<>> THEN MaxOfSeq([i \in 1..Len(flat) |-> flat[i].position]) ELSE 0) + 1

EndNode(q, flat, mgl) ==
    [id |-> EndId(q), name |-> <<"q", q, "end">>, type |-> "end",
     position |-> MaxPos(flat), qubits |-> <<q>>, layer |-> EndLayer(mgl)]

\* gate_ids of one occurrence: the ids of the positions of range(start, end)
\* that are in gate_position_to_id, the positions of dag_flat
GateIdsOf(pos_info, flat) ==
    LET known == {flat[i].position : i \in 1..Len(flat)}
        span == [k \in 1..Max(0, pos_info[2] - pos_info[1]) |-> pos_info[1] + k - 1]
        resolved == SelectSeq(span, LAMBDA pos : pos \in known)
    IN  [k \in 1..Len(resolved) |-> GateId(resolved[k])]

MacroRecord(macro_def, gate_ids) ==
    [name |-> macro_def.label, gate_ids |-> gate_ids, nodes |-> macro_def.gates]

\* macro_instances of one macro_def: a record for each occurrence whose
\* gate_ids is not empty
MacroInstances(macro_def, flat) ==
    LET all == [k \in 1..Len(macro_def.positions) |->
                   MacroRecord(macro_def, GateIdsOf(macro_def.positions[k], flat))]
    IN  SelectSeq(all, LAMBDA inst : inst.gate_ids # <<>>)

\* what one macro_def adds to output_macros: its instances, or one record
\* with empty gate_ids when it has no instance
MacroOutput(macro_def, flat) ==
    LET macro_instances == MacroInstances(macro_def, flat)
    IN  IF macro_instances = <<>>
        THEN <<MacroRecord(macro_def, <<>>)>>
        ELSE macro_instances

RECURSIVE BuildOutputMacros(_, _)
BuildOutputMacros(ms, flat) ==
    IF ms = <<>> THEN <<>>
    ELSE BuildOutputMacros(SubSeq(ms, 1, Len(ms) - 1), flat) \o MacroOutput(ms[Len(ms)], flat)

\* the sample input_data of circuit_json_parsing.py: its macros
FixtureMacros ==
    << [label |-> "EntanglingLayer(2<->0)",
        gates |-> <<[name |-> "u3", qubits |-> <<2>>], [name |-> "cx", qubits |-> <<0, 2>>]>>,
        positions |-> << <<5, 7>>, <<7, 9>> >>] >>

DetectorIdle ==
    /\ ops_sequence = <<>>
    /\ min_repetitions = 0
    /\ max_window_size = 0
    /\ pc = "idle"
    /\ patterns = <<>>
    /\ selected_macros = <<>>
    /\ macros = <<>>
    /\ hierarchical_view = <<>>
    /\ statistics = NoStatistics

\* the state of the graph builder on entry
GraphStart ==
    /\ gpc = "start"
    /\ gate_index = 0
    /\ output_nodes = <<>>
    /\ output_edges = <<>>
    /\ last_node_on_qubit = <<>>
    /\ node_layers = <<>>
    /\ max_gate_layer = 0
    /\ output_macros = <<>>

GraphInit ==
    /\ \/ /\ dag_flat \in {DagFlatOf(g) : g \in SeqsUpTo(GraphGates(MaxQubits), MaxGates)}
          /\ num_qubits \in 0..MaxQubits
          /\ in_macros = <<>>
       \/ /\ dag_flat = FixtureDagFlat
          /\ num_qubits = FixtureNumQubits
          /\ in_macros = FixtureMacros
    /\ dag_hierarchical = <<>>
    /\ GraphStart
    /\ DetectorIdle
    /\ PureIdle

\* the macro lists given to the graph builder with a dag_flat of n one-qubit
\* gates: no macro, macro "A", or macros "A" and "B", each two gates wide and
\* occurring at 1..MaxRep start positions of 0..MaxGates (an occurrence at
\* or beyond n - 1 reaches past the gates of dag_flat)
MacroStarts == {st \in SeqsUpTo(0..MaxGates, MaxRep) :
                   st # <<>> /\ \A i \in 1..(Len(st) - 1) : st[i] < st[i + 1]}

MacroDefAt(label, st) ==
    [label |-> label,
     gates |-> <<[name |-> "h", qubits |-> <<0>>], [name |-> "h", qubits |-> <<0>>]>>,
     positions |-> [i \in 1..Len(st) |-> <<st[i], st[i] + 2>>]]

MacroGraphInit ==
    /\ dag_flat \in {DagFlatOf(g) : g \in SeqsUpTo(GraphGates(1), MaxGates)}
    /\ num_qubits = 1
    /\ in_macros \in {<<>>}
           \cup {<<MacroDefAt("A", a)>> : a \in MacroStarts}
           \cup {<<MacroDefAt("A", a), MacroDefAt("B", b)>> : a \in MacroStarts, b \in MacroStarts}
    /\ dag_hierarchical = <<>>
    /\ GraphStart
    /\ DetectorIdle
    /\ PureIdle

\* --- 1. Add Init Nodes ---
AddInitNodes ==
    /\ gpc = "start"
    /\ LET qubit_list == QubitList(num_qubits)
       IN  /\ output_nodes' = [i \in 1..Len(qubit_list) |-> InitNode(qubit_list[i])]
           /\ last_node_on_qubit' = [q \in SeqToSet(qubit_list) |-> StartId(q)]
           /\ node_layers' = [id \in {StartId(q) : q \in SeqToSet(qubit_list)} |-> start_layer]
    /\ gpc' = "gates"
    /\ UNCHANGED <<dag_flat, dag_hierarchical, num_qubits, gate_index, output_edges,
                   max_gate_layer, in_macros, output_macros>>
    /\ UNCHANGED <<detVars, pureVars>>

\* --- 3. Calculate Layers and Build Edges ---: one iteration of the loop over
\* hierarchical_nodes (built from dag_flat in step 2)
ProcessGateNode ==
    /\ gpc = "gates"
    /\ gate_index < Len(dag_flat)
    /\ LET node == HierarchicalNode(dag_flat[gate_index + 1])
           predecessor_nodes == PredecessorNodes(node.qubits, last_node_on_qubit)
           predecessor_layers ==
               [k \in 1..Len(predecessor_nodes) |-> node_layers[predecessor_nodes[k][1]]]
           current_layer == CurrentLayer(predecessor_layers)
       IN  /\ max_gate_layer' = Max(max_gate_layer, current_layer)
           /\ node_layers' = [id \in DOMAIN node_layers \cup {node.id} |->
                                 IF id = node.id THEN current_layer ELSE node_layers[id]]
           /\ output_nodes' = Append(output_nodes, [node EXCEPT !.layer = current_layer])
           /\ output_edges' = output_edges \o
                 [k \in 1..Len(predecessor_nodes) |->
                     Edge(predecessor_nodes[k][1], node.id, predecessor_nodes[k][2])]
           /\ last_node_on_qubit' = UpdateLastNode(last_node_on_qubit, node.qubits, node.id)
    /\ gate_index' = gate_index + 1
    /\ UNCHANGED <<dag_flat, dag_hierarchical, num_qubits, gpc, in_macros, output_macros>>
    /\ UNCHANGED <<detVars, pureVars>>

\* --- 4. Add End Nodes ---
AddEndNodes ==
    /\ gpc = "gates"
    /\ gate_index = Len(dag_flat)
    /\ LET qubit_list == QubitList(num_qubits)
       IN  /\ output_nodes' = output_nodes \o
                 [i \in 1..Len(qubit_list) |-> EndNode(qubit_list[i], dag_flat, max_gate_layer)]
           /\ output_edges' = output_edges \o
                 [i \in 1..Len(qubit_list) |->
                     Edge(last_node_on_qubit[qubit_list[i]], EndId(qubit_list[i]), qubit_list[i])]
    /\ gpc' = "ended"
    /\ UNCHANGED <<dag_flat, dag_hierarchical, num_qubits, gate_index, last_node_on_qubit,
                   node_layers, max_gate_layer, in_macros, output_macros>>
    /\ UNCHANGED <<detVars, pureVars>>

\* --- 5. Build Macros with gate_ids ---
BuildMacros ==
    /\ gpc = "ended"
    /\ output_macros' = BuildOutputMacros(in_macros, dag_flat)
    /\ gpc' = "done"
    /\ UNCHANGED <<dag_flat, dag_hierarchical, num_qubits, gate_index, output_nodes,
                   output_edges, last_node_on_qubit, node_layers, max_gate_layer,
                   in_macros>>
    /\ UNCHANGED <<detVars, pureVars>>

GraphNext == AddInitNodes \/ ProcessGateNode \/ AddEndNodes \/ BuildMacros

GraphSpec == GraphInit /\ [][GraphNext]_vars

\* the graph builder on a one-qubit dag_flat with macro lists of its own
MacroGraphSpec == MacroGraphInit /\ [][GraphNext]_vars

----------------------------------------------------------------------------
(* parse_circuit_dag of circuit_json_parsing.py: the same graph construction *)
(* with the same local names, except that the gate nodes come from the gate  *)
(* items of dag_hierarchical and that every position range of a macro gets a *)
(* record.                                                                   *)

\* the occurrences <<m, k>> of the macros ms that start at position i
OccurrencesAt(ms, i) ==
    {mk \in {<<m, k>> : m \in 1..Len(ms), k \in 1..MaxLen} :
        /\ mk[2] \in 1..Len(ms[mk[1]].positions)
        /\ ms[mk[1]].positions[mk[2]][1] = i}

\* input_data["dag_hierarchical"] for a dag_flat and its macros: a macro item
\* for each occurrence, a gate item for each position outside the occurrences
RECURSIVE HierarchicalOf(_, _, _)
HierarchicalOf(flat, ms, i) ==
    IF i >= Len(flat) THEN <<>>
    ELSE IF OccurrencesAt(ms, i) # {}
    THEN LET mk == CHOOSE x \in OccurrencesAt(ms, i) : TRUE
             macro_def == ms[mk[1]]
             pos_info == macro_def.positions[mk[2]]
         IN  <<[type |-> "macro", label |-> macro_def.label,
                size |-> pos_info[2] - pos_info[1], gates |-> macro_def.gates,
                start_position |-> pos_info[1], end_position |-> pos_info[2]]>>
                 \o HierarchicalOf(flat, ms, Max(pos_info[2], i + 1))
    ELSE <<[type |-> "gate", name |-> flat[i + 1].gate, qubits |-> flat[i + 1].qubits,
            position |-> i]>>
             \o HierarchicalOf(flat, ms, i + 1)

\* the sample input_data: its dag_hierarchical (gate items 0..4, the macro
\* items (5,7) and (7,9), gate items 9..14)
FixtureHierarchical == HierarchicalOf(FixtureDagFlat, FixtureMacros, 0)

\* hierarchical_nodes: a node for each item of type "gate", macro items skipped
ParseHierarchicalNodes(view) ==
    LET items == SelectSeq(view, LAMBDA item : item.type = "gate")
    IN  [k \in 1..Len(items) |->
            [id |-> GateId(items[k].position), name |-> <<items[k].name>>, type |-> "gate",
             position |-> items[k].position, qubits |-> items[k].qubits, layer |-> 0]]

\* the records of one macro_def: one for each position range, empty
\* gate_ids or not
ParseMacroRecords(macro_def, flat) ==
    [k \in 1..Len(macro_def.positions) |->
        MacroRecord(macro_def, GateIdsOf(macro_def.positions[k], flat))]

RECURSIVE ParseOutputMacros(_, _)
ParseOutputMacros(ms, flat) ==
    IF ms = <<>> THEN <<>>
    ELSE ParseOutputMacros(SubSeq(ms, 1, Len(ms) - 1), flat)
             \o ParseMacroRecords(ms[Len(ms)], flat)

\* the start lists of a macro two gates wide in a dag_flat: 1..MaxRep
\* occurrences inside the circuit that do not overlap and repeat the gates of
\* the first one
ParseMacroStarts(flat) ==
    {st \in SeqsUpTo(0..(Len(flat) - 2), MaxRep) :
        /\ st # <<>>
        /\ \A i \in 1..(Len(st) - 1) : st[i] + 2 <= st[i + 1]
        /\ \A i \in 1..Len(st) : \A d \in 1..2 :
              /\ flat[st[i] + d].gate = flat[st[1] + d].gate
              /\ flat[st[i] + d].qubits = flat[st[1] + d].qubits}

\* input_data["macros"] for one macro with the start list st
ParseMacroDef(flat, st) ==
    [label |-> "A",
     gates |-> [d \in 1..2 |-> [name |-> flat[st[1] + d].gate, qubits |-> flat[st[1] + d].qubits]],
     positions |-> [i \in 1..Len(st) |-> <<st[i], st[i] + 2>>]]

\* the inputs of parse_circuit_dag: a dag_flat, no macro or one macro over
\* it, and the hierarchical list that collapses the macro's occurrences; or
\* the sample input_data
ParseInit ==
    /\ \/ /\ dag_flat \in {DagFlatOf(g) : g \in SeqsUpTo(GraphGates(MaxQubits), MaxGates)}
          /\ num_qubits \in 0..MaxQubits
          /\ in_macros \in {<<>>} \cup {<<ParseMacroDef(dag_flat, st)>> : st \in ParseMacroStarts(dag_flat)}
          /\ dag_hierarchical = HierarchicalOf(dag_flat, in_macros, 0)
       \/ /\ dag_flat = FixtureDagFlat
          /\ num_qubits = FixtureNumQubits
          /\ in_macros = FixtureMacros
          /\ dag_hierarchical = FixtureHierarchical
    /\ GraphStart
    /\ DetectorIdle
    /\ PureIdle

\* --- 0. Add "Init" Nodes ---
ParseInitNodes ==
    /\ gpc = "start"
    /\ LET qubit_list == QubitList(num_qubits)
       IN  /\ output_nodes' = [i \in 1..Len(qubit_list) |-> InitNode(qubit_list[i])]
           /\ last_node_on_qubit' = [q \in SeqToSet(qubit_list) |-> StartId(q)]
           /\ node_layers' = [id \in {StartId(q) : q \in SeqToSet(qubit_list)} |-> start_layer]
    /\ gpc' = "parse_gates"
    /\ UNCHANGED <<dag_flat, dag_hierarchical, num_qubits, gate_index, output_edges,
                   max_gate_layer, in_macros, output_macros>>
    /\ UNCHANGED <<detVars, pureVars>>

\* --- 2. Calculate Layers and Build Edges ---: one iteration of the loop over
\* hierarchical_nodes
ParseGateNode ==
    /\ gpc = "parse_gates"
    /\ gate_index < Len(ParseHierarchicalNodes(dag_hierarchical))
    /\ LET node == ParseHierarchicalNodes(dag_hierarchical)[gate_index + 1]
           predecessor_nodes == PredecessorNodes(node.qubits, last_node_on_qubit)
           predecessor_layers ==
               [k \in 1..Len(predecessor_nodes) |-> node_layers[predecessor_nodes[k][1]]]
           current_layer == CurrentLayer(predecessor_layers)
       IN  /\ max_gate_layer' = Max(max_gate_layer, current_layer)
           /\ node_layers' = [id \in DOMAIN node_layers \cup {node.id} |->
                                 IF id = node.id THEN current_layer ELSE node_layers[id]]
           /\ output_nodes' = Append(output_nodes, [node EXCEPT !.layer = current_layer])
           /\ output_edges' = output_edges \o
                 [k \in 1..Len(predecessor_nodes) |->
                     Edge(predecessor_nodes[k][1], node.id, predecessor_nodes[k][2])]
           /\ last_node_on_qubit' = UpdateLastNode(last_node_on_qubit, node.qubits, node.id)
    /\ gate_index' = gate_index + 1
    /\ UNCHANGED <<dag_flat, dag_hierarchical, num_qubits, gpc, in_macros, output_macros>>
    /\ UNCHANGED <<detVars, pureVars>>

\* --- 2.5 Add "End" Nodes ---
ParseEndNodes ==
    /\ gpc = "parse_gates"
    /\ gate_index = Len(ParseHierarchicalNodes(dag_hierarchical))
    /\ LET qubit_list == QubitList(num_qubits)
           hierarchical_nodes == ParseHierarchicalNodes(dag_hierarchical)
       IN  /\ output_nodes' = output_nodes \o
                 [i \in 1..Len(qubit_list) |->
                     EndNode(qubit_list[i], hierarchical_nodes, max_gate_layer)]
           /\ output_edges' = output_edges \o
                 [i \in 1..Len(qubit_list) |->
                     Edge(last_node_on_qubit[qubit_list[i]], EndId(qubit_list[i]), qubit_list[i])]
    /\ gpc' = "parse_ended"
    /\ UNCHANGED <<dag_flat, dag_hierarchical, num_qubits, gate_index, last_node_on_qubit,
                   node_layers, max_gate_layer, in_macros, output_macros>>
    /\ UNCHANGED <<detVars, pureVars>>

\* --- 3. Define Macro Patterns ---
ParseMacros ==
    /\ gpc = "parse_ended"
    /\ output_macros' = ParseOutputMacros(in_macros, dag_flat)
    /\ gpc' = "parsed"
    /\ UNCHANGED <<dag_flat, dag_hierarchical, num_qubits, gate_index, output_nodes,
                   output_edges, last_node_on_qubit, node_layers, max_gate_layer,
                   in_macros>>
    /\ UNCHANGED <<detVars, pureVars>>

ParseNext == ParseInitNodes \/ ParseGateNode \/ ParseEndNodes \/ ParseMacros

ParseSpec == ParseInit /\ [][ParseNext]_vars

----------------------------------------------------------------------------
(* label_macro called twice on one sequence *)

\* the gates the labeler's sequences are drawn from
LabelOps ==
    { Op("h", <<0>>, <<>>), Op("h", <<1>>, <<>>), Op("x", <<0>>, <<>>),
      Op("p", <<0>>, <<1>>), Op("ry", <<0>>, <<1>>), Op("rz", <<1>>, <<1>>), Op("u3", <<0>>, <<1, 2, 3>>),
      Op("cx", <<0, 1>>, <<>>), Op("cx", <<1, 2>>, <<>>), Op("cx", <<0, 2>>, <<>>),
      Op("cz", <<0, 1>>, <<>>), Op("cp", <<0, 1>>, <<1>>), Op("swap", <<0, 1>>, <<>>) }

\* the QFT segment of test_qft_pattern: h(0) cp(0,1) cp(0,2) h(1) cp(1,2) h(2)
QFTSequence ==
    << Op("h", <<0>>, <<>>), Op("cp", <<0, 1>>, <<1>>), Op("cp", <<0, 2>>, <<2>>),
       Op("h", <<1>>, <<>>), Op("cp", <<1, 2>>, <<1>>), Op("h", <<2>>, <<>>) >>

\* the arguments label_macro is given besides the sequence: a macro whose
\* occurrences start at position `first`, the list of all macros (empty, or
\* that macro and another one), the total circuit length
LabelContext(sequence, first, others, slack) ==
    LET w == Len(sequence)
        macro == [sequence |-> sequence, window_size |-> w, count |-> 2,
                  positions |-> << <<first + w, first + 2 * w>>, <<first, first + w>> >>]
    IN  [macro |-> macro,
         all_macros |-> IF others THEN <<macro, [macro EXCEPT !.count = 3]>> ELSE <<>>,
         total_circuit_length |-> first + 2 * w + slack]

LabelContexts(sequence) ==
    {LabelContext(sequence, first, others, slack) :
        first \in {0, 1}, others \in BOOLEAN, slack \in {0, 1}}

LabelInit ==
    /\ lab_sequence \in SeqsUpTo(LabelOps, MaxLabelLen) \cup {QFTSequence}
    /\ label_first = None
    /\ label_second = None
    /\ lpc = "start"
    /\ DetectorIdle
    /\ GraphIdle
    /\ HashIdle
    /\ MergeIdle

\* a first call of label_macro on the sequence, in any context
LabelMacroFirst ==
    /\ lpc = "start"
    /\ \E c \in LabelContexts(lab_sequence) :
          label_first' = label_macro(c.macro, lab_sequence, c.all_macros,
                                     c.total_circuit_length)
    /\ lpc' = "labelled"
    /\ UNCHANGED <<lab_sequence, label_second>>
    /\ UNCHANGED <<detVars, graphVars, hashVars, mergeVars>>

\* a second call on the same sequence, in any context
LabelMacroSecond ==
    /\ lpc = "labelled"
    /\ \E c \in LabelContexts(lab_sequence) :
          label_second' = label_macro(c.macro, lab_sequence, c.all_macros,
                                      c.total_circuit_length)
    /\ lpc' = "relabelled"
    /\ UNCHANGED <<lab_sequence, label_first>>
    /\ UNCHANGED <<detVars, graphVars, hashVars, mergeVars>>

LabelNext == LabelMacroFirst \/ LabelMacroSecond

LabelSpec == LabelInit /\ [][LabelNext]_vars

----------------------------------------------------------------------------
(* hash_sequence called on a sequence, then on a variant of that sequence *)

\* the operations hash_sequence is given on its own: qubits listed in either
\* order, parameter tuples in either order
HashOps ==
    { Op("h", <<0>>, <<>>), Op("cx", <<0, 1>>, <<>>), Op("cx", <<1, 0>>, <<>>),
      Op("u3", <<0>>, <<1, 2>>), Op("u3", <<0>>, <<2, 1>>) }

Reverse(s) == [i \in 1..Len(s) |-> s[Len(s) + 1 - i]]

\* the normalised form as a sequence of operations: each operation replaced
\* by (gate_name, tuple(sorted(qubits)), tuple(params))
Normalise(seq) ==
    [i \in 1..Len(seq) |-> Op(seq[i].name, SortAsc(seq[i].qubits), seq[i].params)]

HashInit ==
    /\ hs_seq \in SeqsUpTo(HashOps, MaxHashLen)
    /\ hs_hash = <<>>
    /\ hs_variant = <<>>
    /\ hs_variant_hash = <<>>
    /\ hs_kind = "none"
    /\ hpc = "start"
    /\ DetectorIdle
    /\ GraphIdle
    /\ LabelerIdle
    /\ MergeIdle

HashOriginal ==
    /\ hpc = "start"
    /\ hs_hash' = hash_sequence(hs_seq)
    /\ hpc' = "hashed"
    /\ UNCHANGED <<hs_seq, hs_variant, hs_variant_hash, hs_kind>>
    /\ UNCHANGED <<detVars, graphVars, labVars, mergeVars>>

\* the second call, on `variant`
HashVariant(variant, kind) ==
    /\ hpc = "hashed"
    /\ hs_variant' = variant
    /\ hs_kind' = kind
    /\ hs_variant_hash' = hash_sequence(variant)
    /\ hpc' = "compared"
    /\ UNCHANGED <<hs_seq, hs_hash>>
    /\ UNCHANGED <<detVars, graphVars, labVars, mergeVars>>

\* re-hashing the normalised sequence
HashNormalised == HashVariant(Normalise(hs_seq), "normalised")

\* hashing the sequence with the qubits of one operation listed in reverse
HashQubitsReordered ==
    \E i \in 1..Len(hs_seq) :
        /\ Reverse(hs_seq[i].qubits) # hs_seq[i].qubits
        /\ HashVariant([hs_seq EXCEPT ![i].qubits = Reverse(@)], "qubits")

\* hashing the sequence with the parameters of one operation listed in reverse
HashParamsReordered ==
    \E i \in 1..Len(hs_seq) :
        /\ Reverse(hs_seq[i].params) # hs_seq[i].params
        /\ HashVariant([hs_seq EXCEPT ![i].params = Reverse(@)], "params")

HashNext == HashOriginal \/ HashNormalised \/ HashQubitsReordered \/ HashParamsReordered

HashSpec == HashInit /\ [][HashNext]_vars

----------------------------------------------------------------------------
(* _merge_consecutive_cnots: an instruction is its operation's name and the  *)
(* indices of its qubits; merge_i is the 0-based index i of the loop.        *)

Instruction(n, qs) == [name |-> n, qubits |-> qs]

\* the instructions the circuits are drawn from; a macro gate placed by
\* create_macro_gate_circuit may already carry the name CNOT_Pair
MergeInstructions ==
    { Instruction("cx", <<0, 1>>), Instruction("cx", <<1, 2>>),
      Instruction("h", <<0>>), Instruction("CNOT_Pair", <<0, 1>>) }

\* a test that only pairs two CNOTs on the same qubits
IsConsecutiveCnots_SameQubits(data, i) ==
    /\ data[i + 1].name = "cx"
    /\ i < Len(data) - 1
    /\ data[i + 2].name = "cx"
    /\ data[i + 2].qubits = data[i + 1].qubits

\* current_op.name == 'cx' and i < len(circuit.data) - 1 and next_op.name == 'cx'
IsConsecutiveCnots(data, i) ==
    /\ data[i + 1].name = "cx"
    /\ i < Len(data) - 1
    /\ data[i + 2].name = "cx"

\* what the branch for two consecutive CNOTs appends, given all_qubits
MergedPair(current, next) ==
    LET all_qubits == SeqToSet(current.qubits) \cup SeqToSet(next.qubits)
        num_qubits_ == Cardinality(all_qubits)
        qubit_list == SortAsc(CHOOSE s \in [1..num_qubits_ -> all_qubits] :
                                  SeqToSet(s) = all_qubits)
    IN  IF Len(qubit_list) = num_qubits_
        THEN <<Instruction("CNOT_Pair", qubit_list)>>
        ELSE <<current, next>>

MergeInit ==
    /\ circuit_data \in SeqsUpTo(MergeInstructions, MaxCircuit)
    /\ merged_data = <<>>
    /\ merge_i = 0
    /\ mpc = "start"
    /\ DetectorIdle
    /\ GraphIdle
    /\ LabelerIdle
    /\ HashIdle

\* if len(circuit.data) < 2: return circuit
MergeReturnUnchanged ==
    /\ mpc = "start"
    /\ Len(circuit_data) < 2
    /\ merged_data' = circuit_data
    /\ mpc' = "returned"
    /\ UNCHANGED <<circuit_data, merge_i>>
    /\ UNCHANGED <<detVars, graphVars, labVars, hashVars>>

\* merged_circuit = QuantumCircuit(circuit.num_qubits); i = 0
MergeBegin ==
    /\ mpc = "start"
    /\ Len(circuit_data) >= 2
    /\ merged_data' = <<>>
    /\ merge_i' = 0
    /\ mpc' = "loop"
    /\ UNCHANGED circuit_data
    /\ UNCHANGED <<detVars, graphVars, labVars, hashVars>>

\* a loop iteration that finds two consecutive CNOTs among whose qubits
\* there is at least one
MergePair ==
    /\ mpc = "loop"
    /\ merge_i < Len(circuit_data)
    /\ IsConsecutiveCnots(circuit_data, merge_i)
    /\ LET current == circuit_data[merge_i + 1]
           next == circuit_data[merge_i + 2]
       IN  /\ Cardinality(SeqToSet(current.qubits) \cup SeqToSet(next.qubits)) > 0
           /\ merged_data' = merged_data \o MergedPair(current, next)
    /\ merge_i' = merge_i + 2
    /\ UNCHANGED <<circuit_data, mpc>>
    /\ UNCHANGED <<detVars, graphVars, labVars, hashVars>>

\* any other loop iteration: the gate is added normally
MergeCopy ==
    /\ mpc = "loop"
    /\ merge_i < Len(circuit_data)
    /\ IF IsConsecutiveCnots(circuit_data, merge_i)
       THEN LET current == circuit_data[merge_i + 1]
                next == circuit_data[merge_i + 2]
            IN  Cardinality(SeqToSet(current.qubits) \cup SeqToSet(next.qubits)) = 0
       ELSE TRUE
    /\ merged_data' = Append(merged_data, circuit_data[merge_i + 1])
    /\ merge_i' = merge_i + 1
    /\ UNCHANGED <<circuit_data, mpc>>
    /\ UNCHANGED <<detVars, graphVars, labVars, hashVars>>

\* return merged_circuit
MergeReturn ==
    /\ mpc = "loop"
    /\ merge_i >= Len(circuit_data)
    /\ mpc' = "returned"
    /\ UNCHANGED <<circuit_data, merged_data, merge_i>>
    /\ UNCHANGED <<detVars, graphVars, labVars, hashVars>>

MergeNext == MergeReturnUnchanged \/ MergeBegin \/ MergePair \/ MergeCopy \/ MergeReturn

MergeSpec == MergeInit /\ [][MergeNext]_vars

----------------------------------------------------------------------------
(* Properties of the detector pipeline *)

\* the (macro, occurrence) index pairs of the returned macro list
MacroRanges ==
    UNION {{<<i, j>> : j \in 1..Len(macros[i].positions)} : i \in 1..Len(macros)}

\* the position indices a half-open range (start, end) covers
Covered(r) == r[1]..(r[2] - 1)

RangeOf(ij) == macros[ij[1]].positions[ij[2]]

\* C1: the position ranges of the returned macros are pairwise non-overlapping
\* as half-open intervals: no two ranges, of the same macro or of two different
\* macros, share a position index.
NonOverlapInv ==
    pc = "done" =>
        \A r1 \in MacroRanges : \A r2 \in MacroRanges :
            r1 # r2 => Covered(RangeOf(r1)) \cap Covered(RangeOf(r2)) = {}

\* C1 witness: a result with two macros, reached after the greedy scan rejected
\* an overlapping candidate
NonOverlapWitness ==
    /\ pc = "done"
    /\ Len(macros) >= 2
    /\ Len(selected_macros) < Len(AllMacroCandidates(patterns))

\* C2: every returned macro has count = len(positions) and
\* window_size = len(sequence) = end - start for each of its positions.
MacroConsistentInv ==
    pc = "done" =>
        \A i \in 1..Len(macros) :
            /\ macros[i].count = Len(macros[i].positions)
            /\ macros[i].window_size = Len(macros[i].sequence)
            /\ \A j \in 1..Len(macros[i].positions) :
                  macros[i].positions[j][2] - macros[i].positions[j][1]
                      = macros[i].window_size

\* C2 witness: a returned macro that lost a detected occurrence to the greedy
\* scan, so that its count differs from the count detect_patterns reported
MacroConsistentWitness ==
    /\ pc = "done"
    /\ \E i \in 1..Len(macros) : \E k \in 1..Len(patterns) :
          /\ patterns[k].hash = macros[i].hash
          /\ patterns[k].count > macros[i].count

\* the accepted occurrences of the pattern with hash h
AcceptedOf(h) == {k \in 1..Len(selected_macros) : selected_macros[k].hash = h}

\* C3: every returned macro has count >= min_repetitions, and a pattern whose
\* accepted occurrences fell below min_repetitions is absent from the result,
\* none of its occurrences being emitted.
MinRepetitionsInv ==
    pc = "done" =>
        /\ \A i \in 1..Len(macros) : macros[i].count >= min_repetitions
        /\ \A k \in 1..Len(selected_macros) :
              Cardinality(AcceptedOf(selected_macros[k].hash)) < min_repetitions =>
                  /\ \A i \in 1..Len(macros) : macros[i].hash # selected_macros[k].hash
                  /\ \A r \in MacroRanges :
                        RangeOf(r) # <<selected_macros[k].start, selected_macros[k].end>>

\* C3 witness: one pattern is returned while another, accepted fewer than
\* min_repetitions times, has been dropped
MinRepetitionsWitness ==
    /\ pc = "done"
    /\ macros # <<>>
    /\ \E k \in 1..Len(selected_macros) :
          Cardinality(AcceptedOf(selected_macros[k].hash)) < min_repetitions

\* the candidates in scan order, and whether a candidate was accepted
ScanOrder == SortedCandidates(patterns)
Accepted(c) == \E k \in 1..Len(selected_macros) : selected_macros[k] = c
CandOverlap(a, b) == Covered(<<a.start, a.end>>) \cap Covered(<<b.start, b.end>>) # {}

\* two equal-size candidates, a starting before b, that overlap each other and
\* overlap no other accepted candidate
TiePair(a, b) ==
    /\ a.size = b.size
    /\ a.start < b.start
    /\ CandOverlap(a, b)
    /\ \A k \in 1..Len(selected_macros) :
          selected_macros[k] \notin {a, b} =>
              /\ ~CandOverlap(selected_macros[k], a)
              /\ ~CandOverlap(selected_macros[k], b)

\* C5 as stated: candidates are scanned largest window first and, among equal
\* sizes, larger start first; of two overlapping equal-size candidates that
\* overlap no other accepted range, the one with the larger start is accepted
\* and the one with the smaller start is rejected.
TieBreakLargerStartInv ==
    pc = "selected" =>
        LET order == ScanOrder
        IN  \A i \in 1..Len(order) : \A j \in 1..Len(order) :
                /\ i < j =>
                      \/ order[i].size > order[j].size
                      \/ /\ order[i].size = order[j].size
                         /\ order[i].start >= order[j].start
                /\ TiePair(order[i], order[j]) =>
                      Accepted(order[j]) /\ ~Accepted(order[i])

\* C5 amended: candidates are scanned largest window first and, among equal
\* sizes, SMALLER start first; of two overlapping equal-size candidates that
\* overlap no other accepted range, the one with the smaller start is accepted
\* and the one with the larger start is rejected.
TieBreakSmallerStartInv ==
    pc = "selected" =>
        LET order == ScanOrder
        IN  \A i \in 1..Len(order) : \A j \in 1..Len(order) :
                /\ i < j =>
                      \/ order[i].size > order[j].size
                      \/ /\ order[i].size = order[j].size
                         /\ order[i].start <= order[j].start
                /\ TiePair(order[i], order[j]) =>
                      Accepted(order[i]) /\ ~Accepted(order[j])

\* C5 witness: the scan met two overlapping equal-size candidates that overlap
\* no other accepted range
TieBreakWitness ==
    /\ pc = "selected"
    /\ LET order == ScanOrder
       IN  \E i \in 1..Len(order) : \E j \in 1..Len(order) : TiePair(order[i], order[j])

\* two windows with the same gate names and the same parameters, position by
\* position, whatever qubits they act on
SameGatesAndParams(w1, w2) ==
    /\ Len(w1) = Len(w2)
    /\ \A i \in 1..Len(w1) : w1[i].name = w2[i].name /\ w1[i].params = w2[i].params

Window(i, w) == SubSeq(ops_sequence, i + 1, i + w)

\* C6 as stated: two windows with the same gate names and parameters, acting on
\* different qubits, receive the same hash and are grouped by detect_patterns
\* as occurrences of one pattern.
QubitAgnosticHashInv ==
    pc = "detected" =>
        \A w \in 2..LastWindowSize(ops_sequence, max_window_size) :
            \A i \in 0..(Len(ops_sequence) - w) : \A j \in 0..(Len(ops_sequence) - w) :
                SameGatesAndParams(Window(i, w), Window(j, w)) =>
                    /\ hash_sequence(Window(i, w)) = hash_sequence(Window(j, w))
                    /\ \A k \in 1..Len(patterns) :
                          (\E n \in 1..Len(patterns[k].positions) :
                                patterns[k].positions[n] = <<i, i + w>>)
                          <=> (\E n \in 1..Len(patterns[k].positions) :
                                patterns[k].positions[n] = <<j, j + w>>)

----------------------------------------------------------------------------
(* Properties of the graph builder *)

NodeIndices == 1..Len(output_nodes)
EdgeIndices == 1..Len(output_edges)

\* the nodes of the output that carry the id
NodesWithId(id) == {i \in NodeIndices : output_nodes[i].id = id}

\* the layer the output gives to the node with the id
LayerOf(id) == output_nodes[CHOOSE i \in NodeIndices : output_nodes[i].id = id].layer

TypeOf(id) == output_nodes[CHOOSE i \in NodeIndices : output_nodes[i].id = id].type

RECURSIVE MaxOfSet(_)
MaxOfSet(S) ==
    LET x == CHOOSE y \in S : TRUE
    IN  IF S = {x} THEN x ELSE Max(x, MaxOfSet(S \ {x}))

\* C7: every edge (u, v) of the graph, edges out of init nodes and into end
\* nodes included, satisfies layer(v) >= 1 + layer(u).
LayerMonotoneInv ==
    gpc = "ended" =>
        \A k \in EdgeIndices :
            /\ NodesWithId(output_edges[k].from) # {}
            /\ NodesWithId(output_edges[k].to) # {}
            /\ LayerOf(output_edges[k].to) >= 1 + LayerOf(output_edges[k].from)

\* C7 witness: a finished graph with an init-to-gate edge, a gate-to-gate edge,
\* a gate-to-end edge and an edge that climbs more than one layer
LayerMonotoneWitness ==
    /\ gpc = "ended"
    /\ \E k \in EdgeIndices :
          TypeOf(output_edges[k].from) = "init" /\ TypeOf(output_edges[k].to) = "gate"
    /\ \E k \in EdgeIndices :
          TypeOf(output_edges[k].from) = "gate" /\ TypeOf(output_edges[k].to) = "gate"
    /\ \E k \in EdgeIndices :
          TypeOf(output_edges[k].from) = "gate" /\ TypeOf(output_edges[k].to) = "end"
    /\ \E k \in EdgeIndices :
          LayerOf(output_edges[k].to) > 1 + LayerOf(output_edges[k].from)

\* C8: the node list holds exactly one init node q_start_q (layer -1,
\* position -1) per qubit q of 0..num_qubits-1, exactly one gate node gate_p per
\* position p of the flat sequence, exactly one end node q_end_q per qubit, and
\* nothing else; the total is len(dag_flat) + 2*num_qubits (21 for the
\* fixture) and all node ids are distinct.
NodeListInv ==
    gpc = "ended" =>
        /\ \A q \in 0..(num_qubits - 1) :
              /\ Cardinality(NodesWithId(StartId(q))) = 1
              /\ \A i \in NodesWithId(StartId(q)) :
                    /\ output_nodes[i].type = "init"
                    /\ output_nodes[i].layer = 0 - 1
                    /\ output_nodes[i].position = 0 - 1
                    /\ output_nodes[i].qubits = <<q>>
              /\ Cardinality(NodesWithId(EndId(q))) = 1
              /\ \A i \in NodesWithId(EndId(q)) :
                    /\ output_nodes[i].type = "end"
                    /\ output_nodes[i].qubits = <<q>>
        /\ \A p \in 0..(Len(dag_flat) - 1) :
              /\ Cardinality(NodesWithId(GateId(p))) = 1
              /\ \A i \in NodesWithId(GateId(p)) :
                    /\ output_nodes[i].type = "gate"
                    /\ output_nodes[i].position = p
                    /\ output_nodes[i].qubits = dag_flat[p + 1].qubits
        /\ \A i \in NodeIndices :
              output_nodes[i].id \in
                  {StartId(q) : q \in 0..(num_qubits - 1)}
                  \cup {EndId(q) : q \in 0..(num_qubits - 1)}
                  \cup {GateId(p) : p \in 0..(Len(dag_flat) - 1)}
        /\ \A i \in NodeIndices : \A j \in NodeIndices :
              i # j => output_nodes[i].id # output_nodes[j].id
        /\ Len(output_nodes) = Len(dag_flat) + 2 * num_qubits
        /\ (dag_flat = FixtureDagFlat /\ num_qubits = FixtureNumQubits
                => Len(output_nodes) = 21)

\* C8 witness: the finished graph of the 15-gate, 3-qubit fixture
NodeListWitness ==
    /\ gpc = "ended"
    /\ dag_flat = FixtureDagFlat
    /\ num_qubits = FixtureNumQubits
    /\ Len(output_nodes) = 21

\* the layers of the gate nodes touching qubit q, and of all gate nodes
GateLayersOn(q) ==
    {output_nodes[i].layer : i \in {j \in NodeIndices :
        /\ output_nodes[j].type = "gate"
        /\ q \in SeqToSet(output_nodes[j].qubits)}}

AllGateLayers ==
    {output_nodes[i].layer : i \in {j \in NodeIndices : output_nodes[j].type = "gate"}}

\* C9 as stated: the layer of q_end_q is 1 + max(layer of the gate nodes that
\* touch q), and 0 when no gate touches q.
EndLayerPerQubitInv ==
    gpc = "ended" =>
        \A q \in 0..(num_qubits - 1) :
            LayerOf(EndId(q)) = 1 + MaxOfSet(GateLayersOn(q) \cup {0 - 1})

\* C9 amended: the layer of every end node q_end_q is 1 + the maximum layer over
\* ALL gate nodes of the graph, the same for every qubit whether or not a gate
\* touches it, and it is 1 when the graph has no gate node.
EndLayerGlobalInv ==
    gpc = "ended" =>
        \A q \in 0..(num_qubits - 1) :
            LayerOf(EndId(q)) = 1 + MaxOfSet(AllGateLayers \cup {0})

\* C9 witness: a finished graph with gate layers up to 1 or more in which one
\* qubit of 0..num_qubits-1 is touched by no gate, so that its end node sits
\* above 1 + (the layers of its own gates)
EndLayerWitness ==
    /\ gpc = "ended"
    /\ AllGateLayers # {}
    /\ MaxOfSet(AllGateLayers) >= 1
    /\ \E q \in 0..(num_qubits - 1) : GateLayersOn(q) = {}

FixtureBuilt ==
    gpc = "ended" /\ dag_flat = FixtureDagFlat /\ num_qubits = FixtureNumQubits

\* C10 as stated: for the sample fixture, q_start_0..2 are at layer -1 and
\* q_end_0..2 at layer 13.
FixtureEndLayer13Inv ==
    FixtureBuilt =>
        \A q \in 0..2 : LayerOf(StartId(q)) = 0 - 1 /\ LayerOf(EndId(q)) = 13

\* C10 amended: for the sample fixture, q_start_0..2 are at layer -1 and
\* q_end_0..2 at layer 12: the gate layers run from 0 to 11 (depth 12) and the
\* end layer is the highest gate layer plus 1.
FixtureEndLayer12Inv ==
    FixtureBuilt =>
        /\ MaxOfSet(AllGateLayers) = 11
        /\ \A q \in 0..2 : LayerOf(StartId(q)) = 0 - 1 /\ LayerOf(EndId(q)) = 12

\* C10 witness: the graph of the fixture is finished, with its three end nodes
FixtureWitness ==
    /\ FixtureBuilt
    /\ \A q \in 0..2 : NodesWithId(EndId(q)) # {}

\* the gates of dag_flat only touch qubits in 0..num_qubits-1
GatesTouchKnownQubits ==
    \A i \in 1..Len(dag_flat) : SeqToSet(dag_flat[i].qubits) \subseteq 0..(num_qubits - 1)

\* the node ids a qubit's path must visit: its init node, the gate nodes that
\* touch it in the order of dag_flat, its end node
QubitPath(q) ==
    LET touching == SelectSeq(dag_flat, LAMBDA item : q \in SeqToSet(item.qubits))
    IN  <<StartId(q)>> \o [k \in 1..Len(touching) |-> GateId(touching[k].position)]
                       \o <<EndId(q)>>

\* the edges tagged with qubit q, in the order they were emitted
EdgesOf(q) == SelectSeq(output_edges, LAMBDA e : e.qubit = q)

\* C11: once the graph is built from a flat sequence whose gates only touch
\* qubits 0..num_qubits-1, for every qubit q the edges tagged q are exactly
\* the links between consecutive nodes of the path q_start_q, the gate nodes
\* touching q in strictly increasing position, q_end_q; each link occurs once,
\* so every gate node on the path has one inbound and one outbound edge for q,
\* the init node one outbound and the end node one inbound edge.
QubitPathInv ==
    (gpc = "ended" /\ GatesTouchKnownQubits) =>
        \A q \in 0..(num_qubits - 1) :
            LET path == QubitPath(q)
                es == EdgesOf(q)
            IN  /\ Len(es) = Len(path) - 1
                /\ \A k \in 1..Len(es) : es[k].from = path[k] /\ es[k].to = path[k + 1]
                /\ \A k \in 2..(Len(path) - 1) :
                       /\ Cardinality({e \in 1..Len(es) : es[e].to = path[k]}) = 1
                       /\ Cardinality({e \in 1..Len(es) : es[e].from = path[k]}) = 1
                /\ \A k \in 2..(Len(path) - 2) : path[k][2] < path[k + 1][2]

\* a built graph in which one qubit is touched by two gates, one of which
\* lists that qubit twice
QubitPathWitness ==
    /\ gpc = "ended"
    /\ GatesTouchKnownQubits
    /\ \E q \in 0..(num_qubits - 1) :
          /\ Len(QubitPath(q)) >= 4
          /\ \E i \in 1..Len(dag_flat) : dag_flat[i].qubits = <<q, q>>

\* every occurrence of every macro of in_macros, in order: <<label, range>>
RECURSIVE Occurrences(_)
Occurrences(ms) ==
    IF ms = <<>> THEN <<>>
    ELSE LET m == ms[Len(ms)]
         IN  Occurrences(SubSeq(ms, 1, Len(ms) - 1))
                 \o [k \in 1..Len(m.positions) |-> <<m.label, m.positions[k]>>]

\* C12: the graph builder emits exactly one macro record per position range
\* of every macro, in order, named after the macro and holding the ids of the
\* gate nodes of its range; an occurrence none of whose positions is a gate
\* node is still a record of its own, with empty gate_ids.
MacroRecordPerOccurrenceInv ==
    gpc = "done" =>
        LET occ == Occurrences(in_macros)
        IN  /\ Len(output_macros) = Len(occ)
            /\ \A k \in 1..Len(occ) :
                   /\ output_macros[k].name = occ[k][1]
                   /\ output_macros[k].gate_ids = GateIdsOf(occ[k][2], dag_flat)

\* C13: for a sequence shorter than 4 operations (the empty one included) and
\* for a max_window_size below 2 whatever the sequence, detect_patterns
\* returns no pattern and find_non_overlapping_macros returns no macro.
ShortInputNoPatternsInv ==
    (Len(ops_sequence) < 4 \/ max_window_size < 2) =>
        /\ patterns = <<>>
        /\ selected_macros = <<>>
        /\ macros = <<>>

\* the detector has finished on three operations with windows of size 2
\* allowed and every window count accepted
ShortInputWitness ==
    /\ pc = "done"
    /\ Len(ops_sequence) = 3
    /\ max_window_size >= 2
    /\ min_repetitions = 0

\* the detector has finished on a sequence that repeats a window of size 2,
\* with windows of size 1 only
SmallWindowWitness ==
    /\ pc = "done"
    /\ max_window_size < 2
    /\ Len(ops_sequence) >= 4
    /\ \E i \in 0..(Len(ops_sequence) - 4) : Window(i, 2) = Window(i + 2, 2)

\* C14: with min_repetitions below 1 the configuration is unsatisfiable: for
\* every operation sequence detect_patterns returns no pattern and
\* find_non_overlapping_macros returns no macro.
UnsatisfiableRepetitionsInv ==
    min_repetitions < 1 =>
        /\ patterns = <<>>
        /\ macros = <<>>

\* C18: the macro list returned by find_non_overlapping_macros is ordered
\* non-increasingly by (count, window_size): of two consecutive macros a, b
\* either count(a) > count(b), or the counts are equal and
\* window_size(a) >= window_size(b).
MacroOrderInv ==
    pc = "done" =>
        \A i \in 1..(Len(macros) - 1) :
            \/ macros[i].count > macros[i + 1].count
            \/ /\ macros[i].count = macros[i + 1].count
               /\ macros[i].window_size >= macros[i + 1].window_size

\* a returned list in which the macro that was grouped first is not the
\* first of the list
MacroOrderWitness ==
    /\ pc = "done"
    /\ Len(macros) >= 2
    /\ macros # FilterMacros(GroupByHash(selected_macros), min_repetitions)

----------------------------------------------------------------------------
(* Properties of the labeler *)

\* C15: label_macro applied to the sequence h(0) cp(0,1) cp(0,2) h(1) cp(1,2)
\* h(2) on three qubits returns exactly the label "QFT Circuit Segment".
QFTLabelInv ==
    (lab_sequence = QFTSequence /\ lpc \in {"labelled", "relabelled"}) =>
        label_first = "QFT Circuit Segment"

\* the QFT segment has been labelled
QFTLabelWitness ==
    /\ lab_sequence = QFTSequence
    /\ lpc = "labelled"
    /\ label_first # None

\* C20: label_macro is a total pure function of the sequence: every call
\* returns a non-empty label, and two calls on the same sequence return the
\* same label whatever the macro's positions, the list of all macros and
\* the total circuit length are.
LabelPureInv ==
    /\ lpc \in {"labelled", "relabelled"} => label_first # None
    /\ lpc = "relabelled" => (label_second # None /\ label_second = label_first)

\* a sequence that no known pattern matches has been labelled twice, by the
\* one-qubit branch of label_macro
LabelPureWitness ==
    /\ lpc = "relabelled"
    /\ lab_sequence # <<>>
    /\ label_first = "Single Qubit Layer"
    /\ label_second = "Single Qubit Layer"

----------------------------------------------------------------------------
(* Properties of hash_sequence *)

\* C16: hashing the normalised form of a sequence gives the hash of the
\* sequence; the hash does not depend on the order in which an operation
\* lists its qubits, and it does depend on the order of its parameters.
HashNormalFormInv ==
    hpc = "compared" =>
        /\ hs_kind \in {"normalised", "qubits"} => hs_variant_hash = hs_hash
        /\ hs_kind = "params" => hs_variant_hash # hs_hash

\* the normalised form of a sequence that lists the qubits of an operation in
\* descending order has been hashed
HashNormalFormWitness ==
    /\ hpc = "compared"
    /\ hs_kind = "normalised"
    /\ hs_variant # hs_seq

----------------------------------------------------------------------------
(* Properties of _merge_consecutive_cnots *)

NamedCount(data, n) == Cardinality({k \in 1..Len(data) : data[k].name = n})

\* C17: the circuit returned by _merge_consecutive_cnots has no two adjacent
\* instructions both named cx; the CNOTs that disappeared were consumed in
\* pairs, each pair replaced by one CNOT_Pair gate.
NoAdjacentCnotsInv ==
    mpc = "returned" =>
        /\ \A k \in 1..(Len(merged_data) - 1) :
               ~(merged_data[k].name = "cx" /\ merged_data[k + 1].name = "cx")
        /\ NamedCount(circuit_data, "cx") - NamedCount(merged_data, "cx")
               = 2 * (NamedCount(merged_data, "CNOT_Pair") - NamedCount(circuit_data, "CNOT_Pair"))
        /\ Len(circuit_data) - Len(merged_data)
               = NamedCount(merged_data, "CNOT_Pair") - NamedCount(circuit_data, "CNOT_Pair")

\* a run of three CNOTs on different qubit pairs has been merged into one
\* CNOT_Pair gate followed by the unpaired CNOT
NoAdjacentCnotsWitness ==
    /\ mpc = "returned"
    /\ \E k \in 1..(Len(circuit_data) - 2) :
          /\ \A d \in 0..2 : circuit_data[k + d].name = "cx"
          /\ circuit_data[k].qubits # circuit_data[k + 1].qubits
    /\ \E k \in 1..(Len(merged_data) - 1) :
          /\ merged_data[k] = Instruction("CNOT_Pair", <<0, 1, 2>>)
          /\ merged_data[k + 1].name = "cx"

----------------------------------------------------------------------------
(* Properties of the hierarchical view *)

\* the positions [start, end) an item of the view stands for
ItemStart(item) == IF item.type = "macro" THEN item.start_position ELSE item.position
ItemEnd(item) == IF item.type = "macro" THEN item.end_position ELSE item.position + 1

MacroItems(view) == {k \in 1..Len(view) : view[k].type = "macro"}

\* C19: the items of the hierarchical view are in increasing position order
\* and partition the positions 0..n-1: every selected macro occurrence
\* (start, end) is exactly one macro item of size end - start, every other
\* position exactly one gate item; so hierarchical_items is
\* n - sum of count * (window_size - 1) over the macros, at most n, and the
\* number of macro items is total_macro_instances.
HierarchicalPartitionInv ==
    pc = "analyzed" =>
        LET view == hierarchical_view
            n == Len(ops_sequence)
            ranges == {RangeOf(ij) : ij \in MacroRanges}
        IN  /\ (view = <<>>) <=> (n = 0)
            /\ view # <<>> => (ItemStart(view[1]) = 0 /\ ItemEnd(view[Len(view)]) = n)
            /\ \A k \in 1..(Len(view) - 1) : ItemStart(view[k + 1]) = ItemEnd(view[k])
            /\ \A k \in 1..Len(view) : ItemStart(view[k]) < ItemEnd(view[k])
            /\ \A k \in MacroItems(view) :
                   /\ <<ItemStart(view[k]), ItemEnd(view[k])>> \in ranges
                   /\ view[k].size = view[k].end_position - view[k].start_position
            /\ \A r \in ranges :
                   Cardinality({k \in MacroItems(view) :
                                   <<ItemStart(view[k]), ItemEnd(view[k])>> = r}) = 1
            /\ \A k \in 1..Len(view) :
                   view[k].type = "gate" =>
                       \A r \in ranges : view[k].position \notin Covered(r)
            /\ statistics.hierarchical_items
                   = n - SumOf([k \in 1..Len(macros) |->
                                   macros[k].count * (macros[k].window_size - 1)])
            /\ statistics.hierarchical_items <= n
            /\ Cardinality(MacroItems(view)) = statistics.total_macro_instances

\* a view that holds two macro items of one macro and a gate item
HierarchicalPartitionWitness ==
    /\ pc = "analyzed"
    /\ \E k \in 1..Len(macros) : macros[k].count >= 2
    /\ \E k \in 1..Len(hierarchical_view) : hierarchical_view[k].type = "gate"
    /\ Cardinality(MacroItems(hierarchical_view)) >= 2

----------------------------------------------------------------------------
(* Properties of the graph builder on gates that touch unknown qubits *)

\* the edges that enter the node id
InboundEdges(id) == {k \in EdgeIndices : output_edges[k].to = id}

\* gate i of dag_flat touches qubit q when q has no recorded last node: q is
\* outside 0..num_qubits-1 and no earlier gate touched it
TouchesUnrecorded(i, q) ==
    /\ q \in SeqToSet(dag_flat[i].qubits)
    /\ q \notin 0..(num_qubits - 1)
    /\ \A j \in 1..(i - 1) : q \notin SeqToSet(dag_flat[j].qubits)

\* C21: when a gate touches a qubit that has no recorded last node, the
\* builder still returns a graph holding the gate's node; the node has no
\* incoming edge for that qubit, and its layer is 1 + the highest layer of
\* its remaining predecessors, or 0 if it has none.
UnrecordedQubitInv ==
    gpc = "ended" =>
        \A i \in 1..Len(dag_flat) : \A q \in 0..(MaxQubits - 1) :
            TouchesUnrecorded(i, q) =>
                LET id == GateId(dag_flat[i].position)
                    inbound == InboundEdges(id)
                IN  /\ Cardinality(NodesWithId(id)) = 1
                    /\ \A k \in inbound : output_edges[k].qubit # q
                    /\ LayerOf(id) =
                          IF inbound = {} THEN 0
                          ELSE 1 + MaxOfSet({LayerOf(output_edges[k].from) : k \in inbound})

\* a built graph with a two-qubit gate one of whose qubits has no recorded
\* last node while the other one was touched by an earlier gate
UnrecordedQubitWitness ==
    /\ gpc = "ended"
    /\ \E i \in 1..Len(dag_flat) : \E q \in 0..(MaxQubits - 1) :
          /\ TouchesUnrecorded(i, q)
          /\ LayerOf(GateId(dag_flat[i].position)) >= 1

----------------------------------------------------------------------------
(* Properties of the layers along the edges *)

\* the layers of the nodes the edges into id come from
PredecessorLayers(id) == {LayerOf(output_edges[k].from) : k \in InboundEdges(id)}

NodeIds == {output_nodes[i].id : i \in NodeIndices}

\* C22: every node that has an inbound edge, end nodes included, sits exactly
\* one layer above its highest predecessor; so along an edge (u, v) where v
\* has a single predecessor or predecessors of one layer,
\* layer(v) = 1 + layer(u).
LayerExactInv ==
    gpc = "ended" =>
        \A id \in NodeIds :
            InboundEdges(id) # {} => LayerOf(id) = 1 + MaxOfSet(PredecessorLayers(id))

\* C22 amended: every gate node that has an inbound edge sits exactly one
\* layer above its highest predecessor; an end node sits one layer above the
\* highest gate layer of the whole graph (above 0 when there is no gate), at
\* least one layer above its predecessor and exactly one only when that
\* predecessor is on the highest gate layer.
LayerExactGateInv ==
    gpc = "ended" =>
        \A id \in NodeIds :
            InboundEdges(id) # {} =>
                LET top == MaxOfSet(PredecessorLayers(id))
                IN  /\ TypeOf(id) = "gate" => LayerOf(id) = 1 + top
                    /\ TypeOf(id) = "end" =>
                          /\ LayerOf(id) >= 1 + top
                          /\ (LayerOf(id) = 1 + top) <=> (top = max_gate_layer)

\* a built graph with a gate whose predecessors are on different layers and
\* an end node more than one layer above its predecessor
LayerExactWitness ==
    /\ gpc = "ended"
    /\ \E id \in NodeIds :
          TypeOf(id) = "gate" /\ Cardinality(PredecessorLayers(id)) >= 2
    /\ \E id \in NodeIds :
          /\ TypeOf(id) = "end"
          /\ LayerOf(id) > 1 + MaxOfSet(PredecessorLayers(id))

----------------------------------------------------------------------------
(* Properties of the layers as path lengths *)

\* every gate of dag_flat touches at least one qubit of 0..num_qubits-1
GatesTouchSomeKnownQubit ==
    \A i \in 1..Len(dag_flat) :
        SeqToSet(dag_flat[i].qubits) \cap (0..(num_qubits - 1)) # {}

\* the number of edges of the longest path of the graph from an init node to
\* the node id (-1 for a node that no init node reaches)
RECURSIVE LongestPathFromInit(_)
LongestPathFromInit(id) ==
    IF TypeOf(id) = "init" THEN 0
    ELSE LET reached == {LongestPathFromInit(output_edges[k].from) : k \in InboundEdges(id)}
                            \ {0 - 1}
         IN  IF reached = {} THEN 0 - 1 ELSE 1 + MaxOfSet(reached)

\* C23: for a flat sequence in which every gate touches at least one qubit of
\* 0..num_qubits-1, the layer of each gate node is the number of edges of the
\* longest path from an init node to it, minus 1.
LayerIsLongestPathInv ==
    (gpc = "ended" /\ GatesTouchSomeKnownQubit) =>
        \A i \in 1..Len(dag_flat) :
            LET id == GateId(dag_flat[i].position)
            IN  LayerOf(id) = LongestPathFromInit(id) - 1

\* a built graph in which a gate on layer 1 or more also touches a qubit
\* outside 0..num_qubits-1, every gate touching some qubit inside
LayerIsLongestPathWitness ==
    /\ gpc = "ended"
    /\ GatesTouchSomeKnownQubit
    /\ \E i \in 1..Len(dag_flat) :
          /\ ~(SeqToSet(dag_flat[i].qubits) \subseteq 0..(num_qubits - 1))
          /\ LongestPathFromInit(GateId(dag_flat[i].position)) >= 2

----------------------------------------------------------------------------
(* Properties of the label cascade *)

PhaseLikeNames == {"cp", "crz", "cu1", "cz", "p"}

\* the conditions of the QFT rule as the specification states them: an h, more
\* than 0.3 phase-like gates per operation, an h among the first 3 operations
QFTConditions(sequence) ==
    /\ CountOf(sequence, {"h"}) >= 1
    /\ 10 * CountOf(sequence, PhaseLikeNames) > 3 * Len(sequence)
    /\ \E i \in 1..Min(3, Len(sequence)) : sequence[i].name = "h"

\* C24: every sequence with an h, with more than 0.3 phase-like gates per
\* operation and with an h among its first 3 operations is labelled
\* "QFT Circuit Segment", with the suffix " (with SWAP Layer)" exactly when it
\* contains a swap; nothing else, such as a number of qubits, is required.
QFTRuleInv ==
    (lpc = "labelled" /\ QFTConditions(lab_sequence)) =>
        label_first = IF CountOf(lab_sequence, {"swap"}) > 0
                      THEN "QFT Circuit Segment (with SWAP Layer)"
                      ELSE "QFT Circuit Segment"

\* the label each rule of match_known_pattern gives a sequence when it is
\* taken on its own, None when the rule does not apply: 3. all CNOT
AllCnotLabel(sequence) ==
    IF (\A i \in 1..Len(sequence) : sequence[i].name = "cx") /\ Len(sequence) >= 2
    THEN IF analyze_gate_sequence(sequence).num_qubits = 2 THEN "CNOT Pair"
         ELSE IF analyze_gate_sequence(sequence).connectivity.is_linear THEN "CNOT Chain"
         ELSE "CNOT Ladder"
    ELSE None

\* 4. all swap
AllSwapLabel(sequence) ==
    IF \A i \in 1..Len(sequence) : sequence[i].name = "swap" THEN "Swap Network" ELSE None

\* 5. all Hadamard
AllHadamardLabel(sequence) ==
    IF (\A i \in 1..Len(sequence) : sequence[i].name = "h") /\ Len(sequence) >= 2
    THEN IF Len(sequence) = analyze_gate_sequence(sequence).num_qubits THEN "Hadamard Layer"
         ELSE "Hadamard Ladder"
    ELSE None

\* 6. CNOT + rotation
CnotRotationLabel(sequence) ==
    LET cnot_count == CountOf(sequence, {"cx"})
        rotation_count == CountOf(sequence, RotationNames)
        rotation_types == NamesIn(sequence, AxisRotationNames)
    IN  IF cnot_count > 0 /\ rotation_count > 0 /\ rotation_types # <<>>
        THEN IF cnot_count = 1 /\ rotation_count = 1
             THEN Upper(rotation_types[1]) \o " Rotation Block"
             ELSE IF cnot_count = 2 /\ rotation_count = 1
             THEN Upper(rotation_types[1]) \o " Rotation with CNOT Pair"
             ELSE IF cnot_count >= 2 /\ rotation_count >= 1
             THEN Upper(rotation_types[1]) \o " Rotation with Entangling Layer"
             ELSE "Rotation-Entangling Block"
        ELSE None

\* 7. pure rotation
PureRotationLabel(sequence) ==
    LET rotation_types == NamesIn(sequence, AxisRotationNames)
    IN  IF /\ CountOf(sequence, RotationNames) > 0
           /\ CountOf(sequence, {"cx"}) = 0
           /\ rotation_types # <<>>
        THEN IF Cardinality(SeqToSet(rotation_types)) = 1
             THEN Upper(rotation_types[1]) \o " Rotation Block"
             ELSE "Mixed Rotation Block"
        ELSE None

\* 8. CZ only
CzLabel(sequence) ==
    IF CountOf(sequence, {"cz"}) > 0 /\ CountOf(sequence, {"cx"}) = 0
    THEN IF CountOf(sequence, {"cz"}) >= 2 THEN "CZ Ladder" ELSE "CZ Gate"
    ELSE None

\* the labels of the eight rules in the order QFT, Grover, all-CNOT, all-swap,
\* all-Hadamard, CNOT+rotation, pure rotation, CZ-only
RuleLabels(sequence) ==
    << QFTLabel(sequence), GroverLabel(sequence), AllCnotLabel(sequence),
       AllSwapLabel(sequence), AllHadamardLabel(sequence), CnotRotationLabel(sequence),
       PureRotationLabel(sequence), CzLabel(sequence) >>

\* the rules that apply to the sequence
MatchingRules(sequence) == {r \in 1..8 : RuleLabels(sequence)[r] # None}

\* the sequence h(0) cz(0,1) h(0), to which both the QFT rule and the Grover
\* rule apply
QFTAndGroverSequence ==
    << Op("h", <<0>>, <<>>), Op("cz", <<0, 1>>, <<>>), Op("h", <<0>>, <<>>) >>

\* C25: the label cascade is first-match-wins in the order QFT, Grover,
\* all-CNOT, all-swap, all-Hadamard, CNOT+rotation, pure rotation, CZ-only:
\* a sequence to which several rules apply gets the label of the earliest of
\* them; h(0) cz(0,1) h(0) is labelled "QFT Circuit Segment".
FirstMatchWinsInv ==
    lpc = "labelled" =>
        LET labels == RuleLabels(lab_sequence)
            matching == MatchingRules(lab_sequence)
        IN  /\ matching # {} =>
                  label_first = labels[CHOOSE r \in matching : \A o \in matching : r <= o]
            /\ lab_sequence = QFTAndGroverSequence => label_first = "QFT Circuit Segment"

\* h(0) cz(0,1) h(0), to which the QFT, the Grover and the CZ-only rule apply,
\* has been labelled
FirstMatchWinsWitness ==
    /\ lpc = "labelled"
    /\ lab_sequence = QFTAndGroverSequence
    /\ {1, 2} \subseteq MatchingRules(lab_sequence)
    /\ label_first # None

\* the number of gates of the sequence that touch qubit q
TouchCount(sequence, q) == Cardinality({i \in 1..Len(sequence) : q \in SeqToSet(sequence[i].qubits)})

TouchedQubits(sequence) == UNION {SeqToSet(sequence[i].qubits) : i \in 1..Len(sequence)}

----------------------------------------------------------------------------
(* Properties of the greedy scan *)

\* C27: at the end of the greedy scan the accepted candidates are a maximal
\* non-overlapping subset of the candidate windows: no two of them overlap,
\* every rejected candidate overlaps an accepted candidate at least as large
\* as it, and a candidate is accepted exactly when it overlaps no candidate
\* accepted before it in the scan order.
GreedyMaximalInv ==
    pc = "selected" =>
        LET order == ScanOrder
            acc == {i \in 1..Len(order) : Accepted(order[i])}
        IN  /\ Len(selected_macros) = Cardinality(acc)
            /\ \A i \in acc : \A j \in acc : i # j => ~CandOverlap(order[i], order[j])
            /\ \A i \in (1..Len(order)) \ acc :
                   \E j \in acc : /\ CandOverlap(order[i], order[j])
                                  /\ order[j].size >= order[i].size
            /\ \A i \in 1..Len(order) :
                   (i \in acc) <=> (\A j \in acc : j < i => ~CandOverlap(order[i], order[j]))

\* a scan that accepted two candidates of different sizes and rejected a
\* candidate that overlaps only a larger one
GreedyMaximalWitness ==
    /\ pc = "selected"
    /\ \E k \in 1..Len(selected_macros) : \E l \in 1..Len(selected_macros) :
          selected_macros[k].size > selected_macros[l].size
    /\ LET order == ScanOrder
       IN  \E i \in 1..Len(order) :
              /\ ~Accepted(order[i])
              /\ \A k \in 1..Len(selected_macros) :
                    CandOverlap(order[i], selected_macros[k]) =>
                        selected_macros[k].size > order[i].size

----------------------------------------------------------------------------
(* Properties of detect_patterns *)

\* the window sizes detect_patterns looks at
WindowSizes == 2..Min(max_window_size, Len(ops_sequence) \div 2)

\* the starts of the windows of size w whose normalised content is that of
\* the window at start i
SameContentStarts(i, w) ==
    {j \in 0..(Len(ops_sequence) - w) : hash_sequence(Window(j, w)) = hash_sequence(Window(i, w))}

\* the ascending sequence of the elements of a set of numbers
RECURSIVE Ascending(_)
Ascending(S) ==
    IF S = {} THEN <<>>
    ELSE LET lo == CHOOSE x \in S : \A y \in S : x <= y
         IN  <<lo>> \o Ascending(S \ {lo})

\* C28: detect_patterns returns exactly the repeated windows: for every window
\* size w of 2..min(max_window_size, len div 2) and every normalised window
\* content found at min_repetitions or more starts, the map has one entry,
\* whose positions are all the windows (i, i+w) of that content in increasing
\* i, overlapping ones included and counted; it has no other entry.
ExactPatternsInv ==
    pc = "detected" =>
        /\ \A w \in WindowSizes : \A i \in 0..(Len(ops_sequence) - w) :
              LET starts == SameContentStarts(i, w)
                  entries == {k \in 1..Len(patterns) :
                                 patterns[k].hash = hash_sequence(Window(i, w))}
              IN  IF Cardinality(starts) >= min_repetitions
                  THEN /\ Cardinality(entries) = 1
                       /\ \A k \in entries :
                             /\ patterns[k].window_size = w
                             /\ patterns[k].count = Cardinality(starts)
                             /\ patterns[k].positions =
                                   [n \in 1..Cardinality(starts) |->
                                       <<Ascending(starts)[n], Ascending(starts)[n] + w>>]
                  ELSE entries = {}
        /\ \A k \in 1..Len(patterns) :
              /\ patterns[k].window_size \in WindowSizes
              /\ patterns[k].positions # <<>>
              /\ patterns[k].hash =
                    hash_sequence(Window(patterns[k].positions[1][1], patterns[k].window_size))

\* a pattern that counts two overlapping windows has been detected, while the
\* content of another window of the same size is found too rarely
ExactPatternsWitness ==
    /\ pc = "detected"
    /\ \E k \in 1..Len(patterns) :
          /\ Len(patterns[k].positions) >= 2
          /\ patterns[k].positions[2][1] < patterns[k].positions[1][2]
          /\ \E i \in 0..(Len(ops_sequence) - patterns[k].window_size) :
                Cardinality(SameContentStarts(i, patterns[k].window_size)) < min_repetitions

----------------------------------------------------------------------------
(* Properties of find_non_overlapping_macros on repeated patterns *)

\* the pattern has n or more occurrences no two of which overlap
HasDisjointOccurrences(pattern, n) ==
    \E S \in SUBSET (1..Len(pattern.positions)) :
        /\ Cardinality(S) >= n
        /\ \A a, b \in S :
              a # b => ~ranges_overlap(pattern.positions[a][1], pattern.positions[a][2],
                                       pattern.positions[b][1], pattern.positions[b][2])

\* C30: whenever a detected pattern has min_repetitions or more pairwise
\* non-overlapping occurrences (min_repetitions >= 2),
\* find_non_overlapping_macros returns at least one macro.
RepeatGivesMacroInv ==
    ( /\ pc = "done"
      /\ min_repetitions >= 2
      /\ \E k \in 1..Len(patterns) : HasDisjointOccurrences(patterns[k], min_repetitions) )
    => macros # <<>>

----------------------------------------------------------------------------
(* Properties of parse_circuit_dag *)

\* C29: in the output of parse_circuit_dag every id in the gate_ids of a
\* macro record is the id of a gate node of the output nodes list.
MacroIdsAreNodesInv ==
    gpc = "parsed" =>
        \A k \in 1..Len(output_macros) : \A n \in 1..Len(output_macros[k].gate_ids) :
            \E i \in 1..Len(output_nodes) :
                /\ output_nodes[i].type = "gate"
                /\ output_nodes[i].id = output_macros[k].gate_ids[n]

====
